---- MODULE Spec2Model ----
(***************************************************************************)
(* A model of the qPCR analysis toolkit: the statistics engine             *)
(* (src/src/statistical_analysis.py, class qPCRStatistics) and the         *)
(* expression calculator (src/src/qpcr_analyzer.py, class qPCRAnalyzer).   *)
(*                                                                         *)
(* Numbers.  Every real number of the program is an exact rational here,   *)
(* written as an integer count of a fixed unit, so that the products and   *)
(* quotients of the code come out exact:                                   *)
(*   - a p-value is an integer in 0..One, in units of 1/One;               *)
(*   - a Ct / delta-Ct value is an integer in units of 1/CtUnit cycles.    *)
(* Floating-point rounding is not modelled; the range of a double is, in   *)
(* the one place where the code exponentiates.  A missing value (numpy     *)
(* NaN) is a record whose field nan is TRUE.                               *)
(***************************************************************************)
EXTENDS Integers, Sequences, FiniteSets, TLC

VARIABLES
    results,        \* engine -> the dict self.results (key -> table)
    ret,            \* outcome of the last engine call: what it returned or raised
    last_ttest,     \* history: engine -> rows built by its last completed perform_ttest
    warned,         \* the warnings issued by the last engine call
    calls,          \* call -> the frame of a running perform_comprehensive_analysis
    raw_data,               \* qPCRAnalyzer.raw_data
    processed_data,         \* qPCRAnalyzer.processed_data
    delta_ct_data,          \* qPCRAnalyzer.delta_ct_data
    delta_delta_ct_data,    \* qPCRAnalyzer.delta_delta_ct_data
    aret,           \* outcome of the last analyzer call
    validated       \* history: what validate_data reported on the loaded raw_data

\* ------------------------------------------------------------------ bounds

\* Largest number of comparisons (rows of a t-test table) in the correction runs.
MaxRows == 3
\* p-values are the multiples of 1/PRes in [0, 1].
PRes == 4
\* Number of samples in a raw qPCR table.
MaxSamples == 3
\* Largest number of technical replicates of one measurement.
MaxTech == 2
\* Largest number of samples in one arm of a comparison.
MaxArm == 2
\* Confidence levels are the multiples of 1/LevelRes strictly between 0 and 1.
LevelRes == 4
\* The values of Cohen's d given to _interpret_effect_size are the multiples of
\* 1/DRes of magnitude at most MaxD.
DRes == 10
MaxD == 6
\* The doubles of the corrections in floating point are modelled in a binary
\* format of MantBits significant bits, rounded to nearest, ties to even.
MantBits == 3

\* ------------------------------------------------------------- arithmetic

Min(a, b) == IF b < a THEN b ELSE a
Max(a, b) == IF b > a THEN b ELSE a

RECURSIVE Gcd(_, _)
Gcd(a, b) == IF b = 0 THEN a ELSE Gcd(b, a % b)

RECURSIVE LcmUpTo(_)
LcmUpTo(n) == IF n <= 1 THEN 1 ELSE LET l == LcmUpTo(n - 1) IN (l * n) \div Gcd(l, n)

\* A p-value k/PRes is the integer k * PUnit; One is the number 1.0.  PUnit is
\* divisible by every rank 1..MaxRows, so p * n / rank is an exact integer.
PUnit == LcmUpTo(MaxRows)
One == PRes * PUnit
PValues == {k * PUnit : k \in 0..PRes}

RECURSIVE SeqSum(_)
SeqSum(s) == IF s = <<>> THEN 0 ELSE Head(s) + SeqSum(Tail(s))

\* pandas Series.unique(): the distinct values in order of first appearance.
RECURSIVE UniqueFrom(_, _)
UniqueFrom(s, seen) ==
    IF s = <<>> THEN <<>>
    ELSE IF Head(s) \in seen THEN UniqueFrom(Tail(s), seen)
    ELSE <<Head(s)>> \o UniqueFrom(Tail(s), seen \cup {Head(s)})
Unique(s) == UniqueFrom(s, {})

Column(tbl, col) == [i \in 1..Len(tbl) |-> tbl[i][col]]

\* ------------------------------------------------------- tables and dicts

\* A python dict is a function whose domain is the set of keys present.
EmptyDict == [k \in {} |-> <<>>]
DictSet(d, key, val) == [k \in (DOMAIN d) \cup {key} |-> IF k = key THEN val ELSE d[k]]

\* A number that may be missing: numpy NaN is nan = TRUE.
NaN == [nan |-> TRUE, v |-> 0]
Num(x) == [nan |-> FALSE, v |-> x]
notna(x) == ~x.nan

RECURSIVE Flatten(_)
Flatten(ss) == IF ss = <<>> THEN <<>> ELSE Head(ss) \o Flatten(Tail(ss))

\* ---------------------------------------------- the correction procedures

Methods == {"bonferroni", "holm", "fdr_bh"}

\* The orders in which the indices in `rest` can follow one another with p
\* ascending: each starts with an index of a least remaining value.
RECURSIVE AscendingOrders(_, _)
AscendingOrders(p, rest) ==
    IF rest = {} THEN {<<>>}
    ELSE UNION {{<<i>> \o t : t \in AscendingOrders(p, rest \ {i})} :
                    i \in {i \in rest : \A j \in rest : p[i] <= p[j]}}

\* np.argsort(p_values): a permutation s of the row indices with p[s[1]] <= ... <=
\* p[s[n]].  The default sort kind is not stable, so every order of tied rows is a
\* possible outcome.
ArgSorts(p) == AscendingOrders(p, 1..Len(p))

\* The stable order: ties in original row order.
RECURSIVE StableOrder(_, _)
StableOrder(p, rest) ==
    IF rest = {} THEN <<>>
    ELSE LET i == CHOOSE i \in rest : \A j \in rest : p[i] < p[j] \/ (p[i] = p[j] /\ i <= j)
         IN  <<i>> \o StableOrder(p, rest \ {i})
StableArgSort(p) == StableOrder(p, 1..Len(p))

\* The permutations of 1..n.
Perms(n) == ArgSorts([i \in 1..n |-> 0])

\* Mutants of the Bonferroni line: the factor m left out; the cap at 1 left out.
bonferroni_no_factor(p) == [i \in 1..Len(p) |-> Min(p[i], One)]
bonferroni_no_cap(p) == [i \in 1..Len(p) |-> p[i] * Len(p)]

\* corrected_p = np.minimum(p_values * len(p_values), 1.0)
bonferroni_correction(p) == [i \in 1..Len(p) |-> Min(p[i] * Len(p), One)]

\* First loop of _holm_correction: the 0-based rank i of the code is k - 1.
HolmAssign(p, s) ==
    [idx \in 1..Len(p) |->
        LET k == CHOOSE r \in 1..Len(p) : s[r] = idx
        IN  Min(One, p[idx] * (Len(p) - (k - 1)))]

\* Second loop of _holm_correction: for i in range(1, n), in increasing order.
RECURSIVE HolmSweep(_, _, _)
HolmSweep(c, s, k) ==
    IF k > Len(s) THEN c
    ELSE HolmSweep([c EXCEPT ![s[k]] = Max(c[s[k]], c[s[k - 1]])], s, k + 1)

\* Mutants of _holm_correction: the monotonicity sweep left out; the values left
\* in sorted order (corrected_p[i] for corrected_p[sorted_indices[i]]); the
\* factor taken from the 1-based rank (n - i - 1 for n - i).
holm_no_sweep(p, s) == HolmAssign(p, s)
holm_sorted_order(p, s) ==
    LET c == HolmSweep(HolmAssign(p, s), s, 2) IN [k \in 1..Len(p) |-> c[s[k]]]
holm_rank_off_by_one(p, s) ==
    HolmSweep([idx \in 1..Len(p) |->
                  LET k == CHOOSE r \in 1..Len(p) : s[r] = idx
                  IN  Min(One, p[idx] * (Len(p) - k))], s, 2)

holm_correction(p, s) == HolmSweep(HolmAssign(p, s), s, 2)

\* The loop of _fdr_correction: for i in range(n-1, -1, -1); rank i + 1 is k.
RECURSIVE FdrLoop(_, _, _, _)
FdrLoop(c, p, s, k) ==
    IF k < 1 THEN c
    ELSE LET n == Len(p)
             raw == Min(One, (p[s[k]] * n) \div k)
             v == IF k < n THEN Min(raw, c[s[k + 1]]) ELSE raw
         IN  FdrLoop([c EXCEPT ![s[k]] = v], p, s, k - 1)

\* Mutant of _fdr_correction: the repair swept in Holm's direction (upward, taking
\* the maximum with the previous rank).
fdr_swept_upward(p, s) ==
    HolmSweep([idx \in 1..Len(p) |->
                  LET k == CHOOSE r \in 1..Len(p) : s[r] = idx
                  IN  Min(One, (p[idx] * Len(p)) \div k)], s, 2)

\* Mutant of _fdr_correction: lines 217-219 left out, each row keeps
\* min(1, p * n / rank) of the rank the sort gave it.
fdr_no_sweep(p, s) ==
    [idx \in 1..Len(p) |->
        LET k == CHOOSE r \in 1..Len(p) : s[r] = idx
        IN  Min(One, (p[idx] * Len(p)) \div k)]

fdr_correction(p, s) == FdrLoop([i \in 1..Len(p) |-> 0], p, s, Len(p))

\* f'P_Value_{method.upper()}' and f'Significant_{method.upper()}'
PCol(method) ==
    CASE method = "bonferroni" -> "P_Value_BONFERRONI"
      [] method = "holm" -> "P_Value_HOLM"
      [] method = "fdr_bh" -> "P_Value_FDR_BH"
SigCol(method) ==
    CASE method = "bonferroni" -> "Significant_BONFERRONI"
      [] method = "holm" -> "Significant_HOLM"
      [] method = "fdr_bh" -> "Significant_FDR_BH"

\* The method dispatch of apply_multiple_comparison_correction.
corrected_p(p, method, s) ==
    CASE method = "bonferroni" -> bonferroni_correction(p)
      [] method = "holm" -> holm_correction(p, s)
      [] method = "fdr_bh" -> fdr_correction(p, s)

\* Mutant of line 185: a corrected value equal to alpha is significant.
WithCorrectionInclusive(tbl, method, c, alpha) ==
    [i \in 1..Len(tbl) |->
        tbl[i] @@ (PCol(method) :> c[i]) @@ (SigCol(method) :> (c[i] <= alpha))]

\* data = ttest.copy() with the two columns of the method added.
WithCorrection(tbl, method, c, alpha) ==
    [i \in 1..Len(tbl) |->
        tbl[i] @@ (PCol(method) :> c[i]) @@ (SigCol(method) :> (c[i] < alpha))]

\* Mutant of line 171: no .copy(), so that `data` is the stored t-test table
\* itself and the two columns are added to it.
ApplyOutcomeInPlace(res, method, data) ==
    [status |-> "ok", value |-> data,
     results |-> DictSet(DictSet(res, "ttest", data), "ttest_" \o method, data)]

\* self.results[f'ttest_{method}'] = data; return data   (lines 187-188)
ApplyOutcome(res, method, data) ==
    [status |-> "ok", value |-> data, results |-> DictSet(res, "ttest_" \o method, data)]

\* Mutant of lines 174-182: the method name is checked only after the copy of
\* the t-test table has been stored under it.
apply_correction_store_first(res, alpha, method, s) ==
    IF "ttest" \notin DOMAIN res
    THEN [status |-> "ValueError", value |-> <<"No t-test results found">>, results |-> res]
    ELSE IF res["ttest"] = <<>>
    THEN [status |-> "KeyError", value |-> <<>>, results |-> res]
    ELSE IF method \notin Methods
    THEN [status |-> "ValueError", value |-> <<"method must be">>,
          results |-> DictSet(res, "ttest_" \o method, res["ttest"])]
    ELSE ApplyOutcome(res, method,
            WithCorrection(res["ttest"], method,
                corrected_p(Column(res["ttest"], "P_Value"), method, s), alpha))

\* apply_multiple_comparison_correction on the dict res; s is the outcome of
\* np.argsort.  An empty DataFrame has no columns, so data['P_Value'] raises.
apply_multiple_comparison_correction(res, alpha, method, s) ==
    IF "ttest" \notin DOMAIN res
    THEN [status |-> "ValueError", value |-> <<"No t-test results found">>, results |-> res]
    ELSE IF res["ttest"] = <<>>
    THEN [status |-> "KeyError", value |-> <<>>, results |-> res]
    ELSE IF method \notin Methods
    THEN [status |-> "ValueError", value |-> <<"method must be">>, results |-> res]
    ELSE ApplyOutcome(res, method,
            WithCorrection(res["ttest"], method,
                corrected_p(Column(res["ttest"], "P_Value"), method, s), alpha))

\* ---- the same corrections in floating point
\*
\* A double is an integer number of units of 2^-MantBits; OneR is 1.0.  Every
\* product and quotient of the code is rounded once, as IEEE 754 does.

RECURSIVE TwoTo(_)
TwoTo(n) == IF n <= 0 THEN 1 ELSE 2 * TwoTo(n - 1)

OneR == TwoTo(MantBits)

\* The spacing of the doubles around num/den: the largest power of two q with
\* q * 2^(MantBits-1) <= num/den.
RECURSIVE QuantumOf(_, _, _)
QuantumOf(num, den, q) ==
    IF 2 * q * TwoTo(MantBits - 1) * den <= num THEN QuantumOf(num, den, 2 * q) ELSE q

\* num/den rounded to a multiple of q, to the nearest, ties to the even one.
RoundToEven(num, den, q) ==
    LET lo == num \div (den * q)
        twice_rest == 2 * (num - lo * q * den)
    IN  IF twice_rest < q * den THEN lo * q
        ELSE IF twice_rest > q * den THEN (lo + 1) * q
        ELSE IF lo % 2 = 0 THEN lo * q ELSE (lo + 1) * q

\* The double nearest to num/den.
Fl(num, den) == RoundToEven(num, den, QuantumOf(num, den, 1))

\* np.minimum(p_values * len(p_values), 1.0)
bonferroni_rounded(p) == [i \in 1..Len(p) |-> Min(Fl(p[i] * Len(p), 1), OneR)]

\* _holm_correction: min(1.0, p * (n - i)), then the sweep.
holm_rounded(p, s) ==
    HolmSweep([idx \in 1..Len(p) |->
                  LET k == CHOOSE r \in 1..Len(p) : s[r] = idx
                  IN  Min(OneR, Fl(p[idx] * (Len(p) - (k - 1)), 1))], s, 2)

\* The loop of _fdr_correction: sorted_p[i] * n is rounded, then divided by
\* i + 1 and rounded again.
RECURSIVE FdrLoopRounded(_, _, _, _)
FdrLoopRounded(c, p, s, k) ==
    IF k < 1 THEN c
    ELSE LET n == Len(p)
             raw == Min(OneR, Fl(Fl(p[s[k]] * n, 1), k))
             v == IF k < n THEN Min(raw, c[s[k + 1]]) ELSE raw
         IN  FdrLoopRounded([c EXCEPT ![s[k]] = v], p, s, k - 1)

fdr_rounded(p, s) == FdrLoopRounded([i \in 1..Len(p) |-> 0], p, s, Len(p))

corrected_p_rounded(p, method, s) ==
    CASE method = "bonferroni" -> bonferroni_rounded(p)
      [] method = "holm" -> holm_rounded(p, s)
      [] method = "fdr_bh" -> fdr_rounded(p, s)

\* apply_multiple_comparison_correction with the arithmetic of doubles.
apply_correction_rounded(res, alpha, method, s) ==
    IF "ttest" \notin DOMAIN res
    THEN [status |-> "ValueError", value |-> <<"No t-test results found">>, results |-> res]
    ELSE IF res["ttest"] = <<>>
    THEN [status |-> "KeyError", value |-> <<>>, results |-> res]
    ELSE IF method \notin Methods
    THEN [status |-> "ValueError", value |-> <<"method must be">>, results |-> res]
    ELSE ApplyOutcome(res, method,
            WithCorrection(res["ttest"], method,
                corrected_p_rounded(Column(res["ttest"], "P_Value"), method, s), alpha))

\* ------------------------------------------------------------ perform_ttest

\* The argument `data` of perform_ttest is a record
\*   table     : the fold-change table, a sequence of rows with the columns
\*               Target_Gene, Condition, Fold_Change (a number that may be NaN);
\*   ttest_ind : <<gene, treatment>> -> the p-value scipy.stats.ttest_ind returns
\*               on the two cleaned arms of that gene and treatment of the table;
\*   ttest_rel : the same for scipy.stats.ttest_rel.
\* scipy is a library outside the repository: what it returns is part of the
\* input, a function of the table.

RowsWhere(tbl, col, val) == SelectSeq(tbl, LAMBDA r : r[col] = val)
dropna(vals) == SelectSeq(vals, notna)

NoStep == [rows |-> <<>>, warnings |-> <<>>, raised |-> FALSE]

\* A Ct or delta-Ct value x cycles is the integer x * CtUnit.  CtUnit is
\* divisible by every count 1..MaxSamples, so that the mean of up to MaxSamples
\* delta-Ct values is an exact integer.
CtUnit == LcmUpTo(MaxSamples)

\* The number a fold change [nan, inf, sign, log2] stands for, 2^(log2 / CtUnit)
\* or 0.0.  The statistics below are exact on the fold changes that are whole
\* powers of two not below 1, the only ones the tables of the model hold.
FoldValue(f) == IF f.sign = 0 THEN 0 ELSE 2 ^ (f.log2 \div CtUnit)
Values(clean) == [i \in 1..Len(clean) |-> FoldValue(clean[i])]

\* n * (n - 1) * std ** 2 of a Series of n values (lines 112 and 114):
\* n * sum(x^2) - sum(x)^2.
SumSqDev(vals) ==
    Len(vals) * SeqSum([i \in 1..Len(vals) |-> vals[i] * vals[i]])
        - SeqSum(vals) * SeqSum(vals)

\* pooled_std ** 2 (lines 117-119), the fraction num / den.
pooled_variance(control, treatment) ==
    [num |-> Len(treatment) * SumSqDev(control) + Len(control) * SumSqDev(treatment),
     den |-> Len(control) * Len(treatment) * (Len(control) + Len(treatment) - 2)]

\* treatment_mean - control_mean (lines 111, 113), the fraction num / den.
mean_difference(control, treatment) ==
    [num |-> Len(control) * SeqSum(treatment) - Len(treatment) * SeqSum(control),
     den |-> Len(control) * Len(treatment)]

\* Cohen's d is NaN, or the real sign * sqrt(num / den).
DNaN == [nan |-> TRUE, sign |-> 0, num |-> 0, den |-> 1]
DZero == [nan |-> FALSE, sign |-> 0, num |-> 0, den |-> 1]
Sign(x) == IF x > 0 THEN 1 ELSE IF x < 0 THEN -1 ELSE 0

\* mean_diff / pooled_std on the values of the two arms, pooled_std > 0:
\* its square is mean_diff^2 / pooled_std^2.
DOf(control, treatment, diff, pvar) ==
    [nan |-> FALSE, sign |-> Sign(diff.num),
     num |-> diff.num * diff.num * (Len(control) + Len(treatment) - 2),
     den |-> diff.den * pvar.num]

\* Line 120 on the values.  With an infinite value an arm's std is NaN, so
\* is pooled_std, and `pooled_std > 0` is False.
CohensDOf(control, treatment, infinite) ==
    IF infinite \/ pooled_variance(control, treatment).num <= 0
    THEN DNaN
    ELSE DOf(control, treatment, mean_difference(control, treatment),
             pooled_variance(control, treatment))

\* Mutant of line 120: 0 for nan when pooled_std is 0.
cohens_d_zero_when_flat(control_clean, treatment_clean) ==
    IF pooled_variance(Values(control_clean), Values(treatment_clean)).num <= 0
    THEN DZero
    ELSE CohensDOf(Values(control_clean), Values(treatment_clean), FALSE)

\* cohens_d = (treatment_mean - control_mean) / pooled_std if pooled_std > 0
\*            else np.nan                                  (lines 111-120)
cohens_d(control_clean, treatment_clean) ==
    CohensDOf(Values(control_clean), Values(treatment_clean),
              (\E i \in 1..Len(control_clean) : control_clean[i].inf)
              \/ (\E j \in 1..Len(treatment_clean) : treatment_clean[j].inf))

\* The integer part of the square root of n, between lo and hi.
RECURSIVE IsqrtIn(_, _, _)
IsqrtIn(n, lo, hi) ==
    IF hi - lo <= 1 THEN lo
    ELSE LET mid == (lo + hi) \div 2
         IN  IF mid * mid <= n THEN IsqrtIn(n, mid, hi) ELSE IsqrtIn(n, lo, mid)
SqrtCeiling == 46341
Isqrt(n) == IsqrtIn(n, 0, SqrtCeiling)

\* The nearest integer to half of sqrt(y), y = ynum / yden, a tie going to
\* the even one.
HalfSqrtRounded(ynum, yden, root) ==
    IF root % 2 = 1 /\ ynum % yden = 0 /\ root * root = ynum \div yden
    THEN (IF ((root - 1) \div 2) % 2 = 0 THEN (root - 1) \div 2 ELSE (root + 1) \div 2)
    ELSE (root + 1) \div 2

\* round(cohens_d, 3) (line 144), in thousandths: the nearest integer to
\* 1000 * d = sign * sqrt(4 * 10^6 * num / den) / 2.
Thousand == 1000
round3(d) ==
    IF d.nan THEN NaN
    ELSE Num(d.sign * HalfSqrtRounded(4 * Thousand * Thousand * d.num, d.den,
                        Isqrt((4 * Thousand * Thousand * d.num) \div d.den)))

\* Mutant of line 228: abs() left out, the thresholds applied to d itself.
interpret_effect_size_signed(d) ==
    IF d.nan THEN "Unknown"
    ELSE IF d.sign < 0 \/ 25 * d.num < d.den THEN "Negligible"
    ELSE IF 4 * d.num < d.den THEN "Small"
    ELSE IF 25 * d.num < 16 * d.den THEN "Medium"
    ELSE "Large"

\* _interpret_effect_size (lines 223-236): abs_d < 0.2, 0.5, 0.8 on the squares.
interpret_effect_size(d) ==
    IF d.nan THEN "Unknown"
    ELSE IF 25 * d.num < d.den THEN "Negligible"
    ELSE IF 4 * d.num < d.den THEN "Small"
    ELSE IF 25 * d.num < 16 * d.den THEN "Medium"
    ELSE "Large"

\* results.append({...})   (lines 131-149; the columns the model keeps)
TTestRow(gene, treatment, control_condition, alpha, control_clean, treatment_clean, p_value) ==
    [Gene |-> gene,
     Cohens_D |-> round3(cohens_d(control_clean, treatment_clean)),
     Effect_Size_Interpretation |->
         interpret_effect_size(cohens_d(control_clean, treatment_clean)),
     Comparison |-> <<treatment, control_condition>>,
     Control_N |-> Len(control_clean),
     Treatment_N |-> Len(treatment_clean),
     P_Value |-> p_value,
     Significant |-> (p_value < alpha),
     Degrees_Freedom |-> Len(control_clean) + Len(treatment_clean) - 2]

\* Lines 94-149 of the inner loop, on the two cleaned arms.
CompareClean(data, gene, treatment, control_condition, test_type, alpha, control_clean, treatment_clean) ==
    IF Len(control_clean) < 2 \/ Len(treatment_clean) < 2
    THEN [NoStep EXCEPT !.warnings = <<<<"Insufficient data", gene, treatment>>>>]
    ELSE IF test_type = "independent"
    THEN [NoStep EXCEPT !.rows =
            <<TTestRow(gene, treatment, control_condition, alpha, control_clean,
                       treatment_clean, data.ttest_ind[<<gene, treatment>>])>>]
    ELSE IF test_type = "paired"
    THEN IF Len(treatment_clean) # Len(control_clean)
         THEN [NoStep EXCEPT
                 !.warnings = <<<<"Unequal sample sizes", gene, treatment>>>>,
                 !.rows = <<TTestRow(gene, treatment, control_condition, alpha,
                                     control_clean, treatment_clean,
                                     data.ttest_ind[<<gene, treatment>>])>>]
         ELSE [NoStep EXCEPT !.rows =
                 <<TTestRow(gene, treatment, control_condition, alpha, control_clean,
                            treatment_clean, data.ttest_rel[<<gene, treatment>>])>>]
    ELSE [NoStep EXCEPT !.raised = TRUE]

\* Lines 85-92 of the inner loop, on the two arms of one gene and treatment.
CompareArms(data, gene, treatment, control_condition, test_type, alpha, control_data, treatment_data) ==
    IF Len(treatment_data) = 0
    THEN NoStep
    ELSE CompareClean(data, gene, treatment, control_condition, test_type, alpha,
                      dropna(control_data), dropna(treatment_data))

\* The body of the outer loop for one gene (lines 75-149), on the rows of the
\* gene: one step per treatment, or the single "No control data" step.
GeneSteps(data, gene, control_condition, test_type, alpha, treatment_conditions, gene_data) ==
    IF Len(RowsWhere(gene_data, "Condition", control_condition)) = 0
    THEN <<[NoStep EXCEPT !.warnings = <<<<"No control data", gene, "">>>>]>>
    ELSE [j \in 1..Len(treatment_conditions) |->
            CompareArms(data, gene, treatment_conditions[j], control_condition,
                test_type, alpha,
                Column(RowsWhere(gene_data, "Condition", control_condition),
                       "Fold_Change"),
                Column(RowsWhere(gene_data, "Condition", treatment_conditions[j]),
                       "Fold_Change"))]

\* Running the steps in order until one raises.
RECURSIVE RunSteps(_, _)
RunSteps(steps, acc) ==
    IF steps = <<>> \/ acc.raised THEN acc
    ELSE RunSteps(Tail(steps),
                  [rows |-> acc.rows \o Head(steps).rows,
                   warnings |-> acc.warnings \o Head(steps).warnings,
                   raised |-> Head(steps).raised])

\* Lines 70-72: the genes and the non-control conditions, in order of appearance.
GenesOf(data) == Unique(Column(data.table, "Target_Gene"))
TreatmentsOf(data, control_condition) ==
    SelectSeq(Unique(Column(data.table, "Condition")), LAMBDA c : c # control_condition)

\* The loops of perform_ttest (lines 68-149): the list `results` it builds.
TTestLoopsOver(data, control_condition, test_type, alpha, genes, treatment_conditions) ==
    RunSteps(Flatten([g \in 1..Len(genes) |->
                GeneSteps(data, genes[g], control_condition, test_type, alpha,
                          treatment_conditions,
                          RowsWhere(data.table, "Target_Gene", genes[g]))]),
             NoStep)
TTestLoops(data, control_condition, test_type, alpha) ==
    TTestLoopsOver(data, control_condition, test_type, alpha, GenesOf(data),
                   TreatmentsOf(data, control_condition))

\* Mutant of line 151: the new rows are appended to the table of the earlier call.
StoreTTestAppending(res, rows) ==
    DictSet(res, "ttest", IF "ttest" \in DOMAIN res THEN res["ttest"] \o rows ELSE rows)

\* self.results['ttest'] = pd.DataFrame(results)   (line 151)
StoreTTest(res, rows) == DictSet(res, "ttest", rows)

\* return self.results['ttest']   (line 152: the dict is read back)
TTestReturn(stored, run) ==
    [status |-> "ok", value |-> stored["ttest"], results |-> stored,
     warnings |-> run.warnings, built |-> run.rows]

\* Lines 151-152 after the loops ended in `run`; a raise leaves the dict as it was.
TTestOutcome(res, run) ==
    IF run.raised
    THEN [status |-> "ValueError", value |-> <<>>, results |-> res,
          warnings |-> run.warnings, built |-> <<>>]
    ELSE TTestReturn(StoreTTest(res, run.rows), run)

\* perform_ttest on the dict res.
perform_ttest(res, alpha, data, control_condition, test_type) ==
    TTestOutcome(res, TTestLoops(data, control_condition, test_type, alpha))

\* ------------------------------------------------------------- the engine

\* qPCRStatistics.__init__: self.alpha (here the middle of the p-value scale, so
\* that p-values below, at and above alpha all occur) and self.results = {}.
alpha == (PRes \div 2) * PUnit

Engines == {"e1", "e2"}
NoTTest == [done |-> FALSE, rows |-> <<>>]
NoCall == [op |-> "none", engine |-> "", arg |-> "", status |-> "ok", value |-> <<>>]

\* The fold-change table a perform_ttest call was given, kept with what the
\* call returned.
CalledOn(data) == [data |-> data.table]

\* A fold-change value: NaN, +infinity, 0.0 (sign = 0), or the positive real
\* 2^(log2 / CtUnit) (sign = 1).  perform_ttest reads of it only whether it
\* is NaN.
FoldOne == [nan |-> FALSE, inf |-> FALSE, sign |-> 1, log2 |-> 0]
FoldNaN == [nan |-> TRUE, inf |-> FALSE, sign |-> 0, log2 |-> 0]
FoldZero == [nan |-> FALSE, inf |-> FALSE, sign |-> 0, log2 |-> 0]
FoldInf == [nan |-> FALSE, inf |-> TRUE, sign |-> 1, log2 |-> 0]

GeneNames == <<"IL6", "TNF", "MYC", "FOS", "JUN">>

FcRows(gene, condition, vals) ==
    [i \in 1..Len(vals) |->
        [Target_Gene |-> gene, Condition |-> condition, Fold_Change |-> vals[i]]]

\* A fold-change table with Len(pl) genes, two control and two treated samples
\* each, on which the independent t-test of gene i returns pl[i].
DataFor(pl) ==
    [table |-> Flatten([i \in 1..Len(pl) |->
                    FcRows(GeneNames[i], "Control", <<FoldOne, FoldOne>>)
                    \o FcRows(GeneNames[i], "Treated", <<FoldOne, FoldOne>>)]),
     ttest_ind |-> [gt \in {<<GeneNames[i], "Treated">> : i \in 1..Len(pl)} |->
                    pl[CHOOSE i \in 1..Len(pl) : GeneNames[i] = gt[1]]],
     ttest_rel |-> [gt \in {<<GeneNames[i], "Treated">> : i \in 1..Len(pl)} |->
                    pl[CHOOSE i \in 1..Len(pl) : GeneNames[i] = gt[1]]]]

PLists == UNION {[1..n -> PValues] : n \in 0..MaxRows}

engine_vars == <<results, ret, last_ttest, warned>>
analyzer_vars ==
    <<raw_data, processed_data, delta_ct_data, delta_delta_ct_data, aret, validated>>
vars == <<results, ret, last_ttest, warned, calls, raw_data, processed_data,
          delta_ct_data, delta_delta_ct_data, aret, validated>>

\* No validate_data call has reported on the loaded data.
NotValidated == [done |-> FALSE, warnings |-> <<>>]

\* An attribute that is None, and one that holds a table.
None == [none |-> TRUE, rows |-> <<>>]
Table(rows) == [none |-> FALSE, rows |-> rows]

Calls == {"A", "B"}
NoData == [table |-> <<>>, ttest_ind |-> EmptyDict, ttest_rel |-> EmptyDict]
NoFrame ==
    [pc |-> "idle", engine |-> "e1", data |-> NoData, ttest_results |-> <<>>,
     bonferroni_results |-> <<>>, fdr_results |-> <<>>, ci_results |-> {}, out |-> <<>>]

\* qPCRAnalyzer.__init__, and no perform_comprehensive_analysis running.
AnalyzerConstructed ==
    /\ raw_data = None
    /\ processed_data = None
    /\ delta_ct_data = None
    /\ delta_delta_ct_data = None
    /\ aret = NoCall
    /\ validated = NotValidated
NoCallsRunning == calls = [c \in Calls |-> NoFrame]

\* What a perform_ttest call that ended in `out` leaves behind on engine e.
TTestEffect(e, data, test_type, out) ==
    /\ results' = [results EXCEPT ![e] = out.results]
    /\ ret' = [op |-> "perform_ttest", engine |-> e, arg |-> test_type,
               status |-> out.status, value |-> out.value] @@ CalledOn(data)
    /\ warned' = out.warnings
    /\ last_ttest' = IF out.status = "ok"
                     THEN [last_ttest EXCEPT ![e] = [done |-> TRUE, rows |-> out.built]]
                     ELSE last_ttest
    /\ UNCHANGED <<calls, analyzer_vars>>

\* perform_ttest(data, test_type=test_type) on engine e.
PerformTTest(e, data, test_type) ==
    TTestEffect(e, data, test_type,
                perform_ttest(results[e], alpha, data, "Control", test_type))

\* The column P_Value of the stored t-test table, <<>> when there is none.
StoredP(res) == IF "ttest" \in DOMAIN res THEN Column(res["ttest"], "P_Value") ELSE <<>>

\* The outcomes of np.argsort that the call can see: only _holm_correction and
\* _fdr_correction sort.
SortOutcomes(p, method) ==
    IF method \in {"holm", "fdr_bh"} THEN ArgSorts(p) ELSE {StableArgSort(p)}

\* What an apply_multiple_comparison_correction call that ended in `out` leaves
\* behind on engine e.
ApplyEffect(e, method, out) ==
    /\ results' = [results EXCEPT ![e] = out.results]
    /\ ret' = [op |-> "apply_multiple_comparison_correction", engine |-> e,
               arg |-> method, status |-> out.status, value |-> out.value]
    /\ warned' = <<>>
    /\ UNCHANGED <<last_ttest, calls, analyzer_vars>>

\* apply_multiple_comparison_correction(method) on engine e.
ApplyCorrection(e, method) ==
    \E s \in SortOutcomes(StoredP(results[e]), method) :
        ApplyEffect(e, method,
                    apply_multiple_comparison_correction(results[e], alpha, method, s))

\* ------------------------------------------------------------------------
\* SpecCorr: the correction procedures on every list of at most MaxRows
\* p-values.  The initial states are the engines on which one perform_ttest has
\* completed; the steps apply the corrections.

InitAfterTTest(data, out) ==
    /\ results = [e \in Engines |-> IF e = "e1" THEN out.results ELSE EmptyDict]
    /\ ret = [op |-> "perform_ttest", engine |-> "e1", arg |-> "independent",
              status |-> out.status, value |-> out.value] @@ CalledOn(data)
    /\ last_ttest = [e \in Engines |->
                        IF e = "e1" THEN [done |-> TRUE, rows |-> out.built]
                        ELSE NoTTest]
    /\ warned = out.warnings
    /\ NoCallsRunning
    /\ AnalyzerConstructed

InitCorr ==
    \E pl \in PLists :
        InitAfterTTest(DataFor(pl),
                       perform_ttest(EmptyDict, alpha, DataFor(pl), "Control",
                                     "independent"))

NextCorr == \E m \in Methods : ApplyCorrection("e1", m)

SpecCorr == InitCorr /\ [][NextCorr]_vars

\* ------------------------------------------- claims on the corrections

HasCorr(e, m) == ("ttest_" \o m) \in DOMAIN results[e]
Corr(e, m) == results[e]["ttest_" \o m]
Permute(seq, pi) == [i \in 1..Len(seq) |-> seq[pi[i]]]
SetMax(S) == CHOOSE x \in S : \A y \in S : y <= x
SetMin(S) == CHOOSE x \in S : \A y \in S : x <= y

\* C1: in every Holm-corrected and every FDR-BH-corrected table, the corrected
\* value is non-decreasing in the raw p-value: for all rows i, j, p_i <= p_j
\* implies corrected_i <= corrected_j.
C1_CorrectedMonotone ==
    \A e \in Engines : \A m \in {"holm", "fdr_bh"} :
        HasCorr(e, m) =>
            LET T == Corr(e, m)
            IN  \A i, j \in 1..Len(T) :
                    T[i].P_Value <= T[j].P_Value => T[i][PCol(m)] <= T[j][PCol(m)]

\* A Holm table and an FDR table of the same three or more rows, on which the
\* unrepaired Holm values are out of order.
C1_Witness ==
    /\ HasCorr("e1", "holm") /\ HasCorr("e1", "fdr_bh")
    /\ LET p == Column(Corr("e1", "holm"), "P_Value")
           raw == HolmAssign(p, StableArgSort(p))
       IN  /\ Len(p) >= 3
           /\ \E i, j \in 1..Len(p) : p[i] < p[j] /\ raw[i] > raw[j]

\* C2: for any number of comparisons, every FDR-BH corrected p-value is at most
\* the Bonferroni-corrected p-value of the same row.
C2_FdrAtMostBonferroni ==
    \A e \in Engines :
        (HasCorr(e, "fdr_bh") /\ HasCorr(e, "bonferroni")) =>
            LET F == Corr(e, "fdr_bh")
                B == Corr(e, "bonferroni")
            IN  /\ Len(F) = Len(B)
                /\ \A i \in 1..Len(F) :
                      /\ F[i].P_Value = B[i].P_Value
                      /\ F[i].P_Value_FDR_BH <= B[i].P_Value_BONFERRONI

\* Both tables of two or more rows, one row strictly below its Bonferroni value
\* and one row equal to it below 1.
C2_Witness ==
    /\ HasCorr("e1", "fdr_bh") /\ HasCorr("e1", "bonferroni")
    /\ LET F == Corr("e1", "fdr_bh")
           B == Corr("e1", "bonferroni")
       IN  /\ Len(F) >= 2
           /\ \E i \in 1..Len(F) : F[i].P_Value_FDR_BH < B[i].P_Value_BONFERRONI
           /\ \E i \in 1..Len(F) : /\ F[i].P_Value_FDR_BH = B[i].P_Value_BONFERRONI
                                   /\ F[i].P_Value_FDR_BH < One

\* Correcting any permutation of the p-values p gives the same permutation of
\* the corrected values c.
CommutesWithPermutations(m, p, c) ==
    \A pi \in Perms(Len(p)) : \A s \in ArgSorts(Permute(p, pi)) :
        corrected_p(Permute(p, pi), m, s) = Permute(c, pi)

\* The last call was a correction by method m that returned the table it stored.
JustReturned(e, m) ==
    /\ ret.op = "apply_multiple_comparison_correction"
    /\ ret.engine = e
    /\ ret.arg = m
    /\ ret.status = "ok"
    /\ ret.value = Corr(e, m)

\* C3: for each method, row i of the corrected table is row i of the t-test
\* table with the corrected value of its own p-value: the other columns are
\* those of the input row, and (checked on each table when it is returned)
\* correcting any permutation of the p-values gives the same permutation of the
\* corrected values.
C3_OriginalRowOrder ==
    \A e \in Engines : \A m \in Methods :
        HasCorr(e, m) =>
            /\ Len(Corr(e, m)) = Len(results[e]["ttest"])
            /\ \A i \in 1..Len(Corr(e, m)) : \A col \in DOMAIN results[e]["ttest"][i] :
                    Corr(e, m)[i][col] = results[e]["ttest"][i][col]
            /\ JustReturned(e, m) =>
                 CommutesWithPermutations(m, Column(Corr(e, m), "P_Value"),
                                          Column(Corr(e, m), PCol(m)))

\* A Holm table whose input is not in ascending order of p and whose corrected
\* values differ between the two first rows.
C3_Witness ==
    /\ HasCorr("e1", "holm")
    /\ JustReturned("e1", "holm")
    /\ LET T == Corr("e1", "holm")
       IN  /\ Len(T) >= 3
           /\ T[1].P_Value > T[2].P_Value
           /\ T[1].P_Value_HOLM # T[2].P_Value_HOLM
           /\ T[3].P_Value < T[2].P_Value

\* C4: in a Bonferroni-corrected table of m rows, corrected_i = min(1, p_i * m)
\* for every row i; with m = 1 the corrected value is the p-value itself.
C4_Bonferroni ==
    \A e \in Engines :
        HasCorr(e, "bonferroni") =>
            LET T == Corr(e, "bonferroni")
                m == Len(T)
            IN  \A i \in 1..m :
                    /\ T[i].P_Value_BONFERRONI =
                          (IF T[i].P_Value * m >= One THEN One ELSE T[i].P_Value * m)
                    /\ m = 1 => T[i].P_Value_BONFERRONI = T[i].P_Value

\* A Bonferroni table with a row cut at 1 and a row below 1 that was multiplied.
C4_Witness ==
    /\ HasCorr("e1", "bonferroni")
    /\ LET T == Corr("e1", "bonferroni")
       IN  /\ \E i \in 1..Len(T) : T[i].P_Value * Len(T) > One
           /\ \E i \in 1..Len(T) : /\ T[i].P_Value > 0
                                   /\ T[i].P_Value_BONFERRONI < One
                                   /\ T[i].P_Value_BONFERRONI > T[i].P_Value

\* The step-down reference on the p-values p, against the corrected values c.
IsHolmStepDown(p, c) ==
    \A s \in ArgSorts(p) : \A k \in 1..Len(p) :
        c[s[k]] = SetMax({Min(One, p[s[j]] * (Len(p) - (j - 1))) : j \in 1..k})

\* C5: Holm is the step-down procedure: in ascending order of p (any order of
\* ties), the corrected value at 0-based rank k is the maximum over the ranks
\* j <= k of min(1, p_(j) * (m - j)).
C5_HolmStepDown ==
    \A e \in Engines :
        HasCorr(e, "holm") =>
            IsHolmStepDown(Column(Corr(e, "holm"), "P_Value"),
                           Column(Corr(e, "holm"), "P_Value_HOLM"))

\* A Holm table in which the floor of the previous rank raised a value below 1.
C5_Witness ==
    /\ HasCorr("e1", "holm")
    /\ LET T == Corr("e1", "holm")
           p == Column(T, "P_Value")
           m == Len(T)
           s == StableArgSort(p)
       IN  \E k \in 2..m :
               /\ T[s[k]].P_Value_HOLM > Min(One, p[s[k]] * (m - (k - 1)))
               /\ T[s[k]].P_Value_HOLM < One
               /\ p[s[k]] > p[s[k - 1]]

\* The step-up reference on the p-values p, against the corrected values c; the
\* quotient p * m / rank is exact in the model's unit.
IsFdrStepUp(p, c) ==
    \A s \in ArgSorts(p) : \A k \in 1..Len(p) :
        /\ (p[s[k]] * Len(p)) % k = 0
        /\ c[s[k]] = SetMin({Min(One, (p[s[j]] * Len(p)) \div j) : j \in k..Len(p)})

\* C6: FDR-BH is the step-up procedure: in ascending order of p (any order of
\* ties), the corrected value at 0-based rank k is the minimum over the ranks
\* j >= k of min(1, p_(j) * m / (j + 1)).
C6_FdrStepUp ==
    \A e \in Engines :
        HasCorr(e, "fdr_bh") =>
            IsFdrStepUp(Column(Corr(e, "fdr_bh"), "P_Value"),
                        Column(Corr(e, "fdr_bh"), "P_Value_FDR_BH"))

\* An FDR table in which the value of the next rank lowered a value.
C6_Witness ==
    /\ HasCorr("e1", "fdr_bh")
    /\ LET T == Corr("e1", "fdr_bh")
           p == Column(T, "P_Value")
           m == Len(T)
           s == StableArgSort(p)
       IN  \E k \in 1..(m - 1) :
               /\ T[s[k]].P_Value_FDR_BH < Min(One, (p[s[k]] * m) \div k)
               /\ p[s[k]] < p[s[k + 1]]

\* C26: every stored Holm and FDR-BH table, computed with whichever order
\* np.argsort gave the tied rows, holds the corrected values that every
\* other ascending order of its p-values gives, the order that breaks ties by
\* the original row order among them; and rows with equal p-values have
\* equal corrected values.
C26_SameUnderEveryTieOrder ==
    \A e \in Engines : \A m \in {"holm", "fdr_bh"} :
        HasCorr(e, m) =>
            LET p == Column(Corr(e, m), "P_Value")
                c == Column(Corr(e, m), PCol(m))
            IN  /\ c = corrected_p(p, m, StableArgSort(p))
                /\ \A s \in ArgSorts(p) : corrected_p(p, m, s) = c
                /\ \A i, j \in 1..Len(p) : p[i] = p[j] => c[i] = c[j]

\* Tied rows i, j take the ranks k and k + 1 in either order.
TiedAtRanks(p, s, i, j, k) == p[i] = p[j] /\ {s[k], s[k + 1]} = {i, j}

\* An FDR table and a Holm table with two tied rows, of a positive p-value
\* and corrected values below 1, whose two ranks carry different factors.
C26_Witness ==
    /\ HasCorr("e1", "holm") /\ HasCorr("e1", "fdr_bh")
    /\ LET p == Column(Corr("e1", "fdr_bh"), "P_Value")
           f == Column(Corr("e1", "fdr_bh"), "P_Value_FDR_BH")
           h == Column(Corr("e1", "holm"), "P_Value_HOLM")
       IN  \E i, j \in 1..Len(p) : \E k \in 1..(Len(p) - 1) :
               /\ i # j /\ p[i] > 0
               /\ TiedAtRanks(p, StableArgSort(p), i, j, k)
               /\ Cardinality(ArgSorts(p)) > 1
               /\ f[i] = f[j] /\ f[i] < One
               /\ h[i] = h[j] /\ h[i] < One
               /\ Min(One, (p[i] * Len(p)) \div k) # Min(One, (p[i] * Len(p)) \div (k + 1))

\* ------------------------------------------------------------------------
\* SpecEngine: one engine from its construction, under any sequence of
\* perform_ttest calls (on a few fold-change tables, with each test type) and
\* apply_multiple_comparison_correction calls (with each method name).

\* The rows of one gene: its control samples and its treated samples.
GeneRows(gene, control, treated) ==
    FcRows(gene, "Control", control) \o FcRows(gene, "Treated", treated)

\* scipy's p-value for each gene of `genes` against "Treated", in units of 1/PRes.
PValueOf(genes, ks) ==
    [gt \in {<<genes[i], "Treated">> : i \in 1..Len(genes)} |->
        PUnit * ks[CHOOSE i \in 1..Len(genes) : genes[i] = gt[1]]]

\* Two genes, two valid samples in every arm.
DataBalanced ==
    [table |-> GeneRows("IL6", <<FoldOne, FoldOne>>, <<FoldOne, FoldOne>>)
               \o GeneRows("TNF", <<FoldOne, FoldOne>>, <<FoldOne, FoldOne>>),
     ttest_ind |-> PValueOf(<<"IL6", "TNF">>, <<1, PRes - 1>>),
     ttest_rel |-> PValueOf(<<"IL6", "TNF">>, <<PRes \div 2, 0>>)]

\* IL6 with arms of unequal size; TNF without any control sample.
DataUnequal ==
    [table |-> GeneRows("IL6", <<FoldOne, FoldOne>>, <<FoldOne, FoldOne, FoldOne>>)
               \o GeneRows("TNF", <<>>, <<FoldOne, FoldOne>>),
     ttest_ind |-> PValueOf(<<"IL6", "TNF">>, <<PRes \div 2, 1>>),
     ttest_rel |-> PValueOf(<<"IL6", "TNF">>, <<0, 0>>)]

\* No comparison survives: IL6 has one valid treated value, TNF no treated row.
DataSparse ==
    [table |-> GeneRows("IL6", <<FoldOne, FoldOne>>, <<FoldOne, FoldNaN>>)
               \o GeneRows("TNF", <<FoldOne, FoldOne>>, <<>>),
     ttest_ind |-> PValueOf(<<"IL6", "TNF">>, <<1, 1>>),
     ttest_rel |-> PValueOf(<<"IL6", "TNF">>, <<1, 1>>)]

\* Three genes, the p-values not in ascending order.
DataThree ==
    [table |-> GeneRows("IL6", <<FoldOne, FoldOne>>, <<FoldOne, FoldOne>>)
               \o GeneRows("TNF", <<FoldOne, FoldNaN, FoldOne>>, <<FoldOne, FoldOne>>)
               \o GeneRows("MYC", <<FoldOne, FoldOne>>, <<FoldOne, FoldOne>>),
     ttest_ind |-> PValueOf(<<"IL6", "TNF", "MYC">>, <<PRes - 1, 1, 1>>),
     ttest_rel |-> PValueOf(<<"IL6", "TNF", "MYC">>, <<1, 1, PRes \div 2>>)]

EngineData == {DataBalanced, DataUnequal, DataSparse, DataThree}
TestTypes == {"independent", "paired", "welch"}

InitEngine ==
    /\ results = [e \in Engines |-> EmptyDict]
    /\ ret = NoCall
    /\ last_ttest = [e \in Engines |-> NoTTest]
    /\ warned = <<>>
    /\ NoCallsRunning
    /\ AnalyzerConstructed

NextEngine ==
    \/ \E d \in EngineData : \E t \in TestTypes : PerformTTest("e1", d, t)
    \/ \E m \in Methods \cup {"sidak"} : ApplyCorrection("e1", m)

SpecEngine == InitEngine /\ [][NextEngine]_vars

\* The corrected values c are those of method m on the p-values p: the
\* reference formula of each method.
IsCorrectionOf(m, p, c) ==
    /\ Len(c) = Len(p)
    /\ CASE m = "bonferroni" ->
                \A i \in 1..Len(p) :
                    c[i] = (IF p[i] * Len(p) >= One THEN One ELSE p[i] * Len(p))
         [] m = "holm" -> IsHolmStepDown(p, c)
         [] m = "fdr_bh" -> IsFdrStepUp(p, c)

\* The table T is the table `rows` with the correction by m of its own p-values.
IsCorrectedTableOf(m, rows, T) ==
    /\ Len(T) = Len(rows)
    /\ \A i \in 1..Len(T) : \A col \in DOMAIN rows[i] : T[i][col] = rows[i][col]
    /\ IsCorrectionOf(m, Column(rows, "P_Value"), Column(T, PCol(m)))

\* C7: whenever a correction returns, it returns (and has stored) the correction
\* of exactly the rows built by the most recent completed perform_ttest call of
\* that engine, with m their number: no row or p-value of an earlier call is in it.
C7_CorrectionScopedToLastTTest ==
    (ret.op = "apply_multiple_comparison_correction" /\ ret.status = "ok") =>
        /\ last_ttest[ret.engine].done
        /\ IsCorrectedTableOf(ret.arg, last_ttest[ret.engine].rows, ret.value)
        /\ Corr(ret.engine, ret.arg) = ret.value

\* A correction returned after a second perform_ttest call, while the table of
\* another method still stored is that of the first call, of another size.
C7_Witness ==
    /\ ret.op = "apply_multiple_comparison_correction" /\ ret.status = "ok"
    /\ ret.arg = "holm"
    /\ Len(ret.value) >= 2
    /\ HasCorr("e1", "fdr_bh")
    /\ Len(Corr("e1", "fdr_bh")) > Len(ret.value)

\* C28: a correction asked of an engine on which no perform_ttest has
\* completed raises ValueError 'No t-test results found', and a correction by
\* an unknown method name raises an error; in both cases self.results is left
\* as it was, and no table is stored under the unknown name.
C28_RejectedCorrectionStoresNothing ==
    [][ret'.op = "apply_multiple_comparison_correction" =>
        /\ ~last_ttest[ret'.engine].done =>
              /\ ret'.status = "ValueError"
              /\ ret'.value = <<"No t-test results found">>
              /\ results' = results
        /\ ret'.arg \notin Methods =>
              /\ ret'.status \in {"ValueError", "KeyError"}
              /\ results' = results
              /\ ("ttest_" \o ret'.arg) \notin DOMAIN results'[ret'.engine]]_vars

\* An unknown method name has been rejected on an engine that holds a t-test
\* table with rows and the table of an earlier correction.
C28_Witness ==
    /\ ret.op = "apply_multiple_comparison_correction"
    /\ ret.arg \notin Methods
    /\ ret.status = "ValueError" /\ ret.value = <<"method must be">>
    /\ last_ttest[ret.engine].done
    /\ StoredP(results[ret.engine]) # <<>>
    /\ HasCorr(ret.engine, "holm")

\* A correction by a known method has been rejected on an engine on which
\* perform_ttest was called and raised, so that none has completed.
C28_NoTTestWitness ==
    /\ ret.op = "apply_multiple_comparison_correction"
    /\ ret.arg \in Methods
    /\ ret.status = "ValueError" /\ ret.value = <<"No t-test results found">>
    /\ ~last_ttest[ret.engine].done
    /\ results[ret.engine] = EmptyDict

\* ------------------------------------------- claims on perform_ttest

\* A perform_ttest call has just returned its table.
TTestJustReturned == ret.op = "perform_ttest" /\ ret.status = "ok"

\* The genes of a fold-change table and its conditions other than the control.
GeneSet(table) == {table[i].Target_Gene : i \in 1..Len(table)}
TreatmentSet(table) == {table[i].Condition : i \in 1..Len(table)} \ {"Control"}

\* The defined fold changes of one gene under one condition.
Observations(table, gene, condition) ==
    dropna(Column(RowsWhere(RowsWhere(table, "Target_Gene", gene),
                            "Condition", condition),
                  "Fold_Change"))

\* Both arms of the comparison have at least two defined fold changes.
EnoughData(table, gene, treatment) ==
    /\ Len(Observations(table, gene, "Control")) >= 2
    /\ Len(Observations(table, gene, treatment)) >= 2

\* The rows of the returned table for one gene and treatment.
RowsFor(tbl, gene, treatment) ==
    SelectSeq(tbl, LAMBDA r : r.Gene = gene /\ r.Comparison = <<treatment, "Control">>)

\* A warning of the call names the comparison, or the gene as a whole (the
\* "No control data" warning of line 81).
WarnedAbout(gene, treatment) ==
    \E w \in 1..Len(warned) :
        /\ warned[w][2] = gene
        /\ warned[w][3] = treatment \/ warned[w][1] = "No control data"

\* C16: the table perform_ttest returns has a row for a gene and a
\* non-control condition exactly when both arms have at least two defined
\* fold changes, and every comparison left out was warned about.
C16_RowsWhereEnoughDataElseWarned ==
    TTestJustReturned =>
        \A gene \in GeneSet(ret.data) : \A treatment \in TreatmentSet(ret.data) :
            /\ Len(RowsFor(ret.value, gene, treatment)) =
                    (IF EnoughData(ret.data, gene, treatment) THEN 1 ELSE 0)
            /\ ~EnoughData(ret.data, gene, treatment) => WarnedAbout(gene, treatment)

\* The part of C16 that holds: the rows are those of the comparisons with
\* enough data, and a comparison left out is warned about unless the gene has
\* control rows and no row at all under the treatment (lines 87-88).
C16_RowsWhereEnoughData ==
    TTestJustReturned =>
        \A gene \in GeneSet(ret.data) : \A treatment \in TreatmentSet(ret.data) :
            /\ Len(RowsFor(ret.value, gene, treatment)) =
                    (IF EnoughData(ret.data, gene, treatment) THEN 1 ELSE 0)
            /\ (/\ ~EnoughData(ret.data, gene, treatment)
                /\ ~WarnedAbout(gene, treatment))
               => /\ RowsWhere(RowsWhere(ret.data, "Target_Gene", gene),
                               "Condition", treatment) = <<>>
                  /\ RowsWhere(RowsWhere(ret.data, "Target_Gene", gene),
                               "Condition", "Control") # <<>>

\* A call returned no row for two comparisons: one warned about, one not.
C16_Witness ==
    /\ TTestJustReturned
    /\ \E g1, g2 \in GeneSet(ret.data) : \E treatment \in TreatmentSet(ret.data) :
          /\ ~EnoughData(ret.data, g1, treatment) /\ WarnedAbout(g1, treatment)
          /\ ~EnoughData(ret.data, g2, treatment) /\ ~WarnedAbout(g2, treatment)
          /\ RowsFor(ret.value, g1, treatment) = <<>>
          /\ RowsFor(ret.value, g2, treatment) = <<>>

\* C19: in every stored t-test table a row is Significant iff its P_Value is
\* strictly below alpha, and in every stored corrected table the column
\* Significant_<METHOD> is true iff the corrected value is strictly below
\* alpha; the row's own Significant is not changed by a correction.
C19_SignificantIffStrictlyBelowAlpha ==
    \A e \in Engines :
        /\ "ttest" \in DOMAIN results[e] =>
              \A i \in 1..Len(results[e]["ttest"]) :
                  results[e]["ttest"][i].Significant
                      <=> results[e]["ttest"][i].P_Value < alpha
        /\ \A m \in Methods :
              HasCorr(e, m) =>
                  \A i \in 1..Len(Corr(e, m)) :
                      /\ Corr(e, m)[i][SigCol(m)] <=> Corr(e, m)[i][PCol(m)] < alpha
                      /\ Corr(e, m)[i].Significant <=> Corr(e, m)[i].P_Value < alpha

\* A stored row whose P_Value equals alpha and is not Significant, and
\* corrected rows whose corrected value is below alpha (significant) and
\* equal to alpha (not significant).
C19_Witness ==
    /\ "ttest" \in DOMAIN results["e1"]
    /\ \E i \in 1..Len(results["e1"]["ttest"]) :
          /\ results["e1"]["ttest"][i].P_Value = alpha
          /\ ~results["e1"]["ttest"][i].Significant
    /\ \E m \in Methods :
          /\ HasCorr("e1", m)
          /\ \E i, j \in 1..Len(Corr("e1", m)) :
                /\ Corr("e1", m)[i][PCol(m)] = alpha /\ ~Corr("e1", m)[i][SigCol(m)]
                /\ Corr("e1", m)[j][PCol(m)] < alpha /\ Corr("e1", m)[j][SigCol(m)]

\* ------------------------------------------------------------------------
\* SpecEffect: the first perform_ttest call on an engine, on every table of
\* one gene whose control and treated arms hold up to MaxArm fold changes,
\* each 1.0, 2.0 or NaN.  The p-value scipy returns is not read by the effect
\* size; it is the same on every table.

FoldTwo == [nan |-> FALSE, inf |-> FALSE, sign |-> 1, log2 |-> CtUnit]
Arms == UNION {[1..n -> {FoldOne, FoldTwo, FoldNaN}] : n \in 0..MaxArm}

EffectTable(control, treated) ==
    [table |-> GeneRows("IL6", control, treated),
     ttest_ind |-> PValueOf(<<"IL6">>, <<1>>),
     ttest_rel |-> PValueOf(<<"IL6">>, <<1>>)]

NextEffect ==
    /\ ret = NoCall
    /\ \E control \in Arms : \E treated \in Arms :
          PerformTTest("e1", EffectTable(control, treated), "independent")

SpecEffect == InitEngine /\ [][NextEffect]_vars

\* n^2 times the sum of the squared deviations of n values from their mean.
Dev(vals) ==
    SeqSum([i \in 1..Len(vals) |->
                (Len(vals) * vals[i] - SeqSum(vals)) * (Len(vals) * vals[i] - SeqSum(vals))])

\* pooled_std^2, times (nc * nt)^2 * (nc + nt - 2): the two sums of squared
\* deviations on one denominator.
PooledDev(c, t) == Len(t) * Len(t) * Dev(c) + Len(c) * Len(c) * Dev(t)

\* treatment_mean - control_mean, times nc * nt.
MeanDiff(c, t) == Len(c) * SeqSum(t) - Len(t) * SeqSum(c)

\* k thousandths is (treatment_mean - control_mean) / pooled_std to three
\* decimals: k has the sign of the difference and |1000 * d - k| <= 1/2,
\* where d^2 = MeanDiff^2 * (nc + nt - 2) / PooledDev.
IsCohensD(k, c, t) ==
    LET dd == 4 * Thousand * Thousand * MeanDiff(c, t) * MeanDiff(c, t)
                  * (Len(c) + Len(t) - 2)
        a == IF k < 0 THEN -k ELSE k
    IN  /\ k # 0 => Sign(k) = Sign(MeanDiff(c, t))
        /\ dd <= (2 * a + 1) * (2 * a + 1) * PooledDev(c, t)
        /\ a > 0 => (2 * a - 1) * (2 * a - 1) * PooledDev(c, t) <= dd

\* The values of the two arms of a row of the returned table.
ControlOf(r) == Values(Observations(ret.data, r.Gene, "Control"))
TreatmentOf(r) == Values(Observations(ret.data, r.Gene, r.Comparison[1]))

\* C18: in every row perform_ttest returns, Cohens_D is
\* (treatment_mean - control_mean) / pooled_std (to the three decimals kept)
\* when pooled_std > 0, and is NaN, not 0, with the label "Unknown" when
\* pooled_std is 0; the row is there in both cases.
C18_CohensDUndefinedWhenFlat ==
    TTestJustReturned =>
        /\ \A i \in 1..Len(ret.value) :
              IF PooledDev(ControlOf(ret.value[i]), TreatmentOf(ret.value[i])) > 0
              THEN /\ ~ret.value[i].Cohens_D.nan
                   /\ IsCohensD(ret.value[i].Cohens_D.v, ControlOf(ret.value[i]),
                                TreatmentOf(ret.value[i]))
                   /\ ret.value[i].Effect_Size_Interpretation # "Unknown"
              ELSE /\ ret.value[i].Cohens_D.nan
                   /\ ret.value[i].Effect_Size_Interpretation = "Unknown"
        /\ \A gene \in GeneSet(ret.data) : \A treatment \in TreatmentSet(ret.data) :
              EnoughData(ret.data, gene, treatment)
                  => Len(RowsFor(ret.value, gene, treatment)) = 1

\* A row whose arms have different means and no spread: Cohens_D is NaN and
\* the label "Unknown".
C18_Witness ==
    /\ TTestJustReturned
    /\ \E i \in 1..Len(ret.value) :
          /\ PooledDev(ControlOf(ret.value[i]), TreatmentOf(ret.value[i])) = 0
          /\ MeanDiff(ControlOf(ret.value[i]), TreatmentOf(ret.value[i])) # 0
          /\ ret.value[i].Cohens_D.nan
          /\ ret.value[i].Effect_Size_Interpretation = "Unknown"

\* ------------------------------------------------------------------------
\* SpecLabel: the first _interpret_effect_size call on an engine, on NaN and
\* on every d = k / DRes with |d| <= MaxD.

\* The float k / DRes as a Cohen's d of the model.
CohensDFrom(x) ==
    IF x.nan THEN DNaN
    ELSE [nan |-> FALSE, sign |-> Sign(x.v), num |-> x.v * x.v, den |-> DRes * DRes]

DInputs == {NaN} \cup {Num(k) : k \in (-(MaxD * DRes))..(MaxD * DRes)}

\* self._interpret_effect_size(cohens_d): self is not touched.
InterpretEffectSize(e, x) ==
    /\ ret' = [op |-> "_interpret_effect_size", engine |-> e, arg |-> x,
               status |-> "ok", value |-> interpret_effect_size(CohensDFrom(x))]
    /\ UNCHANGED <<results, last_ttest, warned, calls, analyzer_vars>>

NextLabel == ret.op = "none" /\ \E x \in DInputs : InterpretEffectSize("e1", x)

SpecLabel == InitEngine /\ [][NextLabel]_vars

\* The label of the thresholds 0.2, 0.5 and 0.8 for the magnitude a / DRes.
LabelOfMagnitude(a) ==
    IF 5 * a < DRes THEN "Negligible"
    ELSE IF 2 * a < DRes THEN "Small"
    ELSE IF 5 * a < 4 * DRes THEN "Medium"
    ELSE "Large"

\* C25: the label _interpret_effect_size returns for a defined d is that of
\* the thresholds on |d| (|d| < 0.2 negligible, 0.2 <= |d| < 0.5 small,
\* 0.5 <= |d| < 0.8 medium, |d| >= 0.8 large), and it is the label of -d.
C25_LabelByMagnitude ==
    (ret.op = "_interpret_effect_size" /\ ~ret.arg.nan) =>
        /\ ret.value = LabelOfMagnitude(IF ret.arg.v < 0 THEN -ret.arg.v ELSE ret.arg.v)
        /\ ret.value = interpret_effect_size(CohensDFrom(Num(-ret.arg.v)))

\* The call on d = -0.5, a threshold with the negative sign, returned "Medium".
C25_Witness ==
    /\ ret.op = "_interpret_effect_size"
    /\ ~ret.arg.nan /\ ret.arg.v < 0 /\ 2 * (-ret.arg.v) = DRes
    /\ ret.value = "Medium"

\* ------------------------------------------------------------------------
\* calculate_confidence_intervals (lines 238-299) with its statistics.

\* A statistic of a row: NaN, +infinity, or v thousandths, the three decimals
\* that round(x, 3) keeps.
StatNaN == [nan |-> TRUE, inf |-> FALSE, v |-> 0]
StatInf == [nan |-> FALSE, inf |-> TRUE, v |-> 0]
Stat(v) == [nan |-> FALSE, inf |-> FALSE, v |-> v]

\* scipy.stats.t.ppf(q, df), q = qnum / qden: a library function, of which the
\* model keeps the sign (positive above the median q = 1/2, negative below)
\* and takes the magnitude t_abs as an input.
t_ppf(qnum, qden, t_abs) == Sign(2 * qnum - qden) * t_abs

\* Mutant of line 280: the lower tail, t.ppf(alpha / 2, df).
t_critical_lower_tail(confidence_level, t_abs) ==
    t_ppf(LevelRes - confidence_level, 2 * LevelRes, t_abs)

\* alpha = 1 - confidence_level; t_critical = stats.t.ppf(1 - alpha/2, df)
\* (lines 262 and 280), the level being confidence_level / LevelRes.
t_critical(confidence_level, t_abs) ==
    t_ppf(2 * LevelRes - (LevelRes - confidence_level), 2 * LevelRes, t_abs)

\* round(mean_val, 3) (lines 273, 289): the nearest integer to 1000 * S / n.
MeanRounded(vals) ==
    (2 * Thousand * SeqSum(vals) + Len(vals)) \div (2 * Len(vals))

\* (t_critical * se)^2 in thousandths squared, rounded down, and its root:
\* se^2 = std^2 / n = SumSqDev / (n^2 * (n - 1))   (lines 274-276).
HalfWidthSq(vals, t) ==
    (Thousand * Thousand * t * t * SumSqDev(vals))
        \div (Len(vals) * Len(vals) * (Len(vals) - 1))

\* 2n * (k - (1000 * mean + 1/2)), for k thousandths.
Offset(vals, k) == 2 * Len(vals) * k - (2 * Thousand * SeqSum(vals) + Len(vals))

\* k - 1/2 <= 1000 * (mean + |t| * se), and k - 1/2 <= 1000 * (mean - |t| * se).
AtMostAbove(vals, t, k) ==
    \/ Offset(vals, k) <= 0
    \/ Offset(vals, k) * Offset(vals, k) * (Len(vals) - 1)
           <= 4 * Thousand * Thousand * t * t * SumSqDev(vals)
AtMostBelow(vals, t, k) ==
    /\ Offset(vals, k) <= 0
    /\ 4 * Thousand * Thousand * t * t * SumSqDev(vals)
           <= Offset(vals, k) * Offset(vals, k) * (Len(vals) - 1)

\* round(mean_val + t * se, 3) and round(mean_val - t * se, 3) for t >= 0
\* (lines 283-284, 293-294): the largest k with k - 1/2 at most the bound,
\* one of the two integers next to it.
RoundedAbove(vals, t, near) ==
    IF AtMostAbove(vals, t, near + 1) THEN near + 1 ELSE near
RoundedBelow(vals, t, near) ==
    IF AtMostBelow(vals, t, near) THEN near ELSE near - 1

\* round(mean_val + t * se, 3) for a t of either sign.
RoundedBound(vals, t) ==
    IF t >= 0
    THEN RoundedAbove(vals, t, MeanRounded(vals) + Isqrt(HalfWidthSq(vals, t)))
    ELSE RoundedBelow(vals, -t, MeanRounded(vals) - Isqrt(HalfWidthSq(vals, -t)))

\* results.append({...}) (lines 286-297; the columns the model keeps) for a
\* group with an infinite value: its mean is inf, its std NaN, so are the bounds.
CIRowInfinite(gene, condition, values, confidence_level) ==
    [Gene |-> gene, Condition |-> condition, N |-> Len(values),
     Mean |-> StatInf, CI_Lower |-> StatNaN, CI_Upper |-> StatNaN,
     Confidence_Level |-> confidence_level]

\* The same for a group of finite values.
CIRowFinite(gene, condition, vals, confidence_level, t) ==
    [Gene |-> gene, Condition |-> condition, N |-> Len(vals),
     Mean |-> Stat(MeanRounded(vals)),
     CI_Lower |-> Stat(RoundedBound(vals, -t)),
     CI_Upper |-> Stat(RoundedBound(vals, t)),
     Confidence_Level |-> confidence_level]

\* Lines 268-297 for one group: no row for fewer than two values.
CIRowsOf(gene, condition, values, confidence_level, t_abs) ==
    IF Len(values) < 2 THEN {}
    ELSE IF \E i \in 1..Len(values) : values[i].inf
    THEN {CIRowInfinite(gene, condition, values, confidence_level)}
    ELSE {CIRowFinite(gene, condition, Values(values), confidence_level,
                      t_critical(confidence_level, t_abs))}

\* calculate_confidence_intervals(data, confidence_level=...): the rows of all
\* the groups (their order is not kept).
confidence_intervals(table, confidence_level, t_abs) ==
    UNION {CIRowsOf(k[1], k[2], Observations(table, k[1], k[2]),
                    confidence_level, t_abs) :
              k \in {<<table[i].Target_Gene, table[i].Condition>> : i \in 1..Len(table)}}

\* What a calculate_confidence_intervals call leaves behind: self.results is
\* not touched.
CalculateConfidenceIntervals(e, data, confidence_level, t_abs) ==
    /\ ret' = [op |-> "calculate_confidence_intervals", engine |-> e,
               arg |-> confidence_level, status |-> "ok",
               value |-> confidence_intervals(data.table, confidence_level, t_abs)]
              @@ CalledOn(data)
    /\ UNCHANGED <<results, last_ttest, warned, calls, analyzer_vars>>

\* ------------------------------------------------------------------------
\* SpecIntervals: the first calculate_confidence_intervals call on an engine,
\* on every table of one gene whose control and treated groups hold up to
\* MaxArm fold changes, each 1.0, 2.0, NaN or inf, at every confidence level
\* of the scale, with each magnitude of the critical value.

GroupValues == UNION {[1..n -> {FoldOne, FoldTwo, FoldNaN, FoldInf}] : n \in 0..MaxArm}
Levels == 1..(LevelRes - 1)
TMagnitudes == {1, 3}

NextIntervals ==
    /\ ret = NoCall
    /\ \E control \in GroupValues : \E treated \in GroupValues :
       \E confidence_level \in Levels : \E t_abs \in TMagnitudes :
          CalculateConfidenceIntervals("e1", EffectTable(control, treated),
                                       confidence_level, t_abs)

SpecIntervals == InitEngine /\ [][NextIntervals]_vars

\* a <= b on statistics: False when either is NaN.
StatLe(a, b) ==
    /\ ~a.nan /\ ~b.nan
    /\ b.inf \/ (~a.inf /\ a.v <= b.v)

IntervalsJustReturned == ret.op = "calculate_confidence_intervals"

\* The groups of a table, and the rows returned for one group.
GroupsOf(table) == {<<table[i].Target_Gene, table[i].Condition>> : i \in 1..Len(table)}
CIRowsFor(k) == {r \in ret.value : r.Gene = k[1] /\ r.Condition = k[2]}

\* A group has one row exactly when it has at least two defined observations.
RowsWhereTwoObservations ==
    \A k \in GroupsOf(ret.data) :
        Cardinality(CIRowsFor(k)) =
            (IF Len(Observations(ret.data, k[1], k[2])) >= 2 THEN 1 ELSE 0)

calculate_confidence_intervals(data) ==
    LET keys == {<<data.table[i].Target_Gene, data.table[i].Condition>> :
                    i \in 1..Len(data.table)}
        N(k) == Len(dropna(Column(RowsWhere(RowsWhere(data.table, "Target_Gene", k[1]),
                                            "Condition", k[2]),
                                  "Fold_Change")))
    IN  {[Gene |-> k[1], Condition |-> k[2], N |-> N(k)] : k \in {q \in keys : N(q) >= 2}}

\* (column < self.alpha).sum()   (lines 334-336)
CountBelow(tbl, col, a) == Cardinality({i \in 1..Len(tbl) : tbl[i][col] < a})

\* The dict returned at lines 343-355.
ComprehensiveResult(ttest_results, bonferroni_results, fdr_results, ci_results, a) ==
    [ttest_results |-> ttest_results,
     bonferroni_corrected |-> bonferroni_results,
     fdr_corrected |-> fdr_results,
     confidence_intervals |-> ci_results,
     summary |-> [total_comparisons |-> Len(ttest_results),
                  significant_uncorrected |-> CountBelow(ttest_results, "P_Value", a),
                  significant_bonferroni |->
                      CountBelow(bonferroni_results, "P_Value_BONFERRONI", a),
                  significant_fdr |-> CountBelow(fdr_results, "P_Value_FDR_BH", a),
                  alpha_level |-> a]]

Frame(c) == calls[c]
EngineOf(c) == calls[c].engine

\* Line 321, inside perform_ttest up to its line 151: the loops run on the
\* call's own data and the table is stored in the engine's dict.
CallTTestStore(c) ==
    /\ Frame(c).pc = "ttest"
    /\ results' = [results EXCEPT ![EngineOf(c)] =
                      StoreTTest(@, TTestLoops(Frame(c).data, "Control",
                                               "independent", alpha).rows)]
    /\ calls' = [calls EXCEPT ![c].pc = "ttest_return"]
    /\ UNCHANGED <<ret, last_ttest, warned, analyzer_vars>>

\* Line 152 and the assignment of line 321: the dict is read back.
CallTTestReturn(c) ==
    /\ Frame(c).pc = "ttest_return"
    /\ calls' = [calls EXCEPT ![c].pc = "bonferroni",
                              ![c].ttest_results = results[EngineOf(c)]["ttest"]]
    /\ UNCHANGED <<engine_vars, analyzer_vars>>

\* Lines 325 and 326: one correction, on whatever table the dict holds now.
CallCorrection(c, method, local, next) ==
    /\ Frame(c).pc = method
    /\ \E s \in SortOutcomes(StoredP(results[EngineOf(c)]), method) :
          LET out == apply_multiple_comparison_correction(results[EngineOf(c)],
                                                          alpha, method, s)
          IN  /\ results' = [results EXCEPT ![EngineOf(c)] = out.results]
              /\ calls' = IF out.status = "ok"
                          THEN [calls EXCEPT ![c].pc = next, ![c][local] = out.value]
                          ELSE [calls EXCEPT ![c].pc = "raised",
                                             ![c].out = [status |-> out.status]]
    /\ UNCHANGED <<ret, last_ttest, warned, analyzer_vars>>

CallBonferroni(c) == CallCorrection(c, "bonferroni", "bonferroni_results", "fdr_bh")

\* Mutant of line 326: the FDR correction is fed the Bonferroni output, its
\* corrected values taken as the raw p-values.
BonferroniAsRaw(tbl) ==
    [i \in 1..Len(tbl) |-> [tbl[i] EXCEPT !.P_Value = tbl[i].P_Value_BONFERRONI]]
CallFdrOnBonferroni(c) ==
    /\ Frame(c).pc = "fdr_bh"
    /\ \E s \in ArgSorts(Column(BonferroniAsRaw(Frame(c).bonferroni_results), "P_Value")) :
          LET out == apply_multiple_comparison_correction(
                        DictSet(EmptyDict, "ttest",
                                BonferroniAsRaw(Frame(c).bonferroni_results)),
                        alpha, "fdr_bh", s)
          IN  /\ results' = [results EXCEPT ![EngineOf(c)] =
                                DictSet(@, "ttest_fdr_bh", out.value)]
              /\ calls' = [calls EXCEPT ![c].pc = "ci", ![c].fdr_results = out.value]
    /\ UNCHANGED <<ret, last_ttest, warned, analyzer_vars>>

CallFdr(c) == CallCorrection(c, "fdr_bh", "fdr_results", "ci")

\* Line 330.
CallConfidenceIntervals(c) ==
    /\ Frame(c).pc = "ci"
    /\ calls' = [calls EXCEPT ![c].pc = "summary",
                              ![c].ci_results =
                                  calculate_confidence_intervals(Frame(c).data)]
    /\ UNCHANGED <<engine_vars, analyzer_vars>>

\* Lines 334-355.
CallReturn(c) ==
    /\ Frame(c).pc = "summary"
    /\ calls' = [calls EXCEPT ![c].pc = "done",
                              ![c].out =
                                  [status |-> "ok"] @@
                                  ComprehensiveResult(Frame(c).ttest_results,
                                                      Frame(c).bonferroni_results,
                                                      Frame(c).fdr_results,
                                                      Frame(c).ci_results, alpha)]
    /\ UNCHANGED <<engine_vars, analyzer_vars>>

\* Both calls entered, A on engine e1 and B on e1 or e2, on different data.
InitConc ==
    /\ results = [e \in Engines |-> EmptyDict]
    /\ ret = NoCall
    /\ last_ttest = [e \in Engines |-> NoTTest]
    /\ warned = <<>>
    /\ AnalyzerConstructed
    /\ \E dA \in EngineData : \E dB \in EngineData \ {dA} : \E eB \in Engines :
          calls = [c \in Calls |->
                      [NoFrame EXCEPT !.pc = "ttest",
                                      !.engine = IF c = "A" THEN "e1" ELSE eB,
                                      !.data = IF c = "A" THEN dA ELSE dB]]

NextConc ==
    \E c \in Calls :
        \/ CallTTestStore(c)
        \/ CallTTestReturn(c)
        \/ CallBonferroni(c)
        \/ CallFdr(c)
        \/ CallConfidenceIntervals(c)
        \/ CallReturn(c)

SpecConc == InitConc /\ [][NextConc]_vars

\* perform_comprehensive_analysis(data) run alone, on a dict `res`: the
\* statements of lines 321-355 one after the other.
AloneAfterFdr(data, t, b, f) ==
    IF f.status # "ok" THEN [status |-> f.status]
    ELSE [status |-> "ok"] @@
         ComprehensiveResult(t.value, b.value, f.value,
                             calculate_confidence_intervals(data), alpha)
AloneAfterBonferroni(data, t, b) ==
    IF b.status # "ok" THEN [status |-> b.status]
    ELSE AloneAfterFdr(data, t, b,
            apply_multiple_comparison_correction(b.results, alpha, "fdr_bh",
                                                 StableArgSort(StoredP(b.results))))
AloneAfterTTest(data, t) ==
    AloneAfterBonferroni(data, t,
        apply_multiple_comparison_correction(t.results, alpha, "bonferroni",
                                             StableArgSort(StoredP(t.results))))
perform_comprehensive_analysis(res, data) ==
    AloneAfterTTest(data, perform_ttest(res, alpha, data, "Control", "independent"))

Ended(c) == Frame(c).pc \in {"done", "raised"}

\* C8: whenever one of the two interleaved calls has ended, what it returned
\* (its t-test table, its two corrected tables, its intervals and its summary
\* tally) or raised is what the same call returns or raises when run alone on
\* a fresh engine.
C8_AnalysesIndependent ==
    \A c \in Calls :
        Ended(c) => Frame(c).out = perform_comprehensive_analysis(EmptyDict, Frame(c).data)

\* The same, for calls that do not share their engine object.
C8_IndependentOnOwnEngines ==
    \A c \in Calls :
        (Ended(c) /\ EngineOf("A") # EngineOf("B")) =>
            Frame(c).out = perform_comprehensive_analysis(EmptyDict, Frame(c).data)

\* Both calls ended, on two engine objects, their steps interleaved.
C8_OwnEnginesWitness ==
    /\ EngineOf("A") # EngineOf("B")
    /\ \A c \in Calls : Frame(c).pc = "done"
    /\ Frame("A").out.summary.total_comparisons # Frame("B").out.summary.total_comparisons

\* Both calls ended on one engine object, and call A returned a Bonferroni
\* table that is not the correction of the t-test table it returned.
C8_Witness ==
    /\ EngineOf("A") = EngineOf("B")
    /\ \A c \in Calls : Frame(c).pc = "done"
    /\ Len(Frame("A").out.bonferroni_corrected) # Len(Frame("A").out.ttest_results)

\* The comparisons of a fold-change table that have enough data.
Comparisons(table) ==
    {gt \in GeneSet(table) \X TreatmentSet(table) : EnoughData(table, gt[1], gt[2])}

\* The call ran as if alone: the other call is on another engine object.
OnOwnEngine(c) == Ended(c) /\ EngineOf("A") # EngineOf("B")

\* The call returned, with the number of its comparisons in the summary.
Completed(c) ==
    /\ Frame(c).pc = "done"
    /\ Frame(c).out.status = "ok"
    /\ Frame(c).out.summary.total_comparisons =
            Cardinality(Comparisons(Frame(c).data.table))

\* C17: perform_comprehensive_analysis returns, with its summary tally, on
\* every fold-change table, one on which every comparison is skipped (zero
\* rows, total_comparisons = 0) included.
C17_SkippingNeverFails == \A c \in Calls : OnOwnEngine(c) => Completed(c)

\* The part of C17 that holds: the call returns whenever at least one
\* comparison has enough data, whatever was skipped.
C17_CompletesWhenSomeRemain ==
    \A c \in Calls :
        (OnOwnEngine(c) /\ Comparisons(Frame(c).data.table) # {}) => Completed(c)

\* A call on a table whose comparisons are all skipped has raised KeyError,
\* and the other call, on its own engine, has returned with skipped
\* comparisons.
C17_Witness ==
    \E c, d \in Calls :
        /\ OnOwnEngine(c) /\ OnOwnEngine(d)
        /\ Comparisons(Frame(c).data.table) = {}
        /\ Frame(c).pc = "raised" /\ Frame(c).out.status = "KeyError"
        /\ Completed(d)
        /\ Comparisons(Frame(d).data.table) #
               GeneSet(Frame(d).data.table) \X TreatmentSet(Frame(d).data.table)

\* The number of rows of a table whose column col is below alpha.
NumberBelowAlpha(tbl, col) == Cardinality({i \in 1..Len(tbl) : tbl[i][col] < alpha})

\* C21: a perform_comprehensive_analysis call that returns has made one
\* perform_ttest call on its data; its Bonferroni table and its FDR table are
\* each the correction of the raw P_Value column of the table that call
\* returned (the FDR table holds no Bonferroni column); and in its summary
\* total_comparisons is the number of rows of the t-test table and the three
\* counts are the numbers of rows with raw, Bonferroni-corrected and
\* FDR-corrected p below alpha.
C21_TallyOfOneTTestAndTwoCorrections ==
    \A c \in Calls :
        (OnOwnEngine(c) /\ Frame(c).pc = "done") =>
            LET o == Frame(c).out
            IN  /\ o.ttest_results =
                      TTestLoops(Frame(c).data, "Control", "independent", alpha).rows
                /\ IsCorrectedTableOf("bonferroni", o.ttest_results, o.bonferroni_corrected)
                /\ IsCorrectedTableOf("fdr_bh", o.ttest_results, o.fdr_corrected)
                /\ \A i \in 1..Len(o.fdr_corrected) :
                      "P_Value_BONFERRONI" \notin DOMAIN o.fdr_corrected[i]
                /\ o.summary.total_comparisons = Len(o.ttest_results)
                /\ o.summary.significant_uncorrected =
                      NumberBelowAlpha(o.ttest_results, "P_Value")
                /\ o.summary.significant_bonferroni =
                      NumberBelowAlpha(o.bonferroni_corrected, "P_Value_BONFERRONI")
                /\ o.summary.significant_fdr =
                      NumberBelowAlpha(o.fdr_corrected, "P_Value_FDR_BH")

\* A call has returned a tally of three comparisons in which the FDR count
\* is above the Bonferroni count.
C21_Witness ==
    \E c \in Calls :
        /\ OnOwnEngine(c) /\ Frame(c).pc = "done"
        /\ Frame(c).out.summary.total_comparisons >= 3
        /\ Frame(c).out.summary.significant_bonferroni
               < Frame(c).out.summary.significant_fdr
        /\ Frame(c).out.summary.significant_uncorrected
               < Frame(c).out.summary.total_comparisons

\* ------------------------------------------------------------------------
\* SpecRound: the corrections in the arithmetic of doubles, on every list of
\* at most MaxRows p-values of RoundValues.

\* self.alpha = 0.75
alphaR == TwoTo(MantBits - 1) + TwoTo(MantBits - 2)

\* The p-values: 0.0 and every double from alpha to 1.0.
RoundValues == {0} \cup (alphaR..OneR)

RoundLists == UNION {[1..n -> RoundValues] : n \in 0..MaxRows}

ApplyCorrectionRounded(e, method) ==
    \E s \in SortOutcomes(StoredP(results[e]), method) :
        ApplyEffect(e, method,
                    apply_correction_rounded(results[e], alphaR, method, s))

InitRound ==
    \E pl \in RoundLists :
        InitAfterTTest(DataFor(pl),
                       perform_ttest(EmptyDict, alphaR, DataFor(pl), "Control",
                                     "independent"))

NextRound == \E m \in Methods : ApplyCorrectionRounded("e1", m)

SpecRound == InitRound /\ [][NextRound]_vars

NumberBelow(tbl, col, a) == Cardinality({i \in 1..Len(tbl) : tbl[i][col] < a})

\* The stored table of method m orders each row as raw p <= corrected p <= 1
\* and marks no row significant whose raw p is not below a.
CorrectedAboveRaw(e, m, one, a) ==
    \A i \in 1..Len(Corr(e, m)) :
        /\ Corr(e, m)[i].P_Value <= Corr(e, m)[i][PCol(m)]
        /\ Corr(e, m)[i][PCol(m)] <= one
        /\ Corr(e, m)[i][SigCol(m)] => Corr(e, m)[i].P_Value < a

\* Row by row, the stored table of method lo is at most that of method hi.
CorrectedAtMost(e, lo, hi) ==
    /\ Len(Corr(e, lo)) = Len(Corr(e, hi))
    /\ \A i \in 1..Len(Corr(e, lo)) :
          /\ Corr(e, lo)[i].P_Value = Corr(e, hi)[i].P_Value
          /\ Corr(e, lo)[i][PCol(lo)] <= Corr(e, hi)[i][PCol(hi)]

\* The counts of the summary of perform_comprehensive_analysis (lines
\* 334-336) on the stored tables: Bonferroni <= FDR.
TallyBonferroniAtMostFdr(e, a) ==
    (HasCorr(e, "fdr_bh") /\ HasCorr(e, "bonferroni")) =>
        NumberBelow(Corr(e, "bonferroni"), "P_Value_BONFERRONI", a)
            <= NumberBelow(Corr(e, "fdr_bh"), "P_Value_FDR_BH", a)

\* FDR <= uncorrected.
TallyFdrAtMostRaw(e, a) ==
    HasCorr(e, "fdr_bh") =>
        NumberBelow(Corr(e, "fdr_bh"), "P_Value_FDR_BH", a)
            <= NumberBelow(results[e]["ttest"], "P_Value", a)

\* The statement of C30 on the tables stored on engine e, with 1.0 and alpha
\* given as one and a.
CorrectionsOrdered(e, one, a) ==
    /\ \A m \in Methods : HasCorr(e, m) => CorrectedAboveRaw(e, m, one, a)
    /\ (HasCorr(e, "fdr_bh") /\ HasCorr(e, "holm")) => CorrectedAtMost(e, "fdr_bh", "holm")
    /\ (HasCorr(e, "holm") /\ HasCorr(e, "bonferroni")) =>
            CorrectedAtMost(e, "holm", "bonferroni")
    /\ TallyBonferroniAtMostFdr(e, a)
    /\ TallyFdrAtMostRaw(e, a)

\* C30: on every list of p-values in [0, 1] and every row,
\* raw p <= FDR-BH p <= Holm p <= Bonferroni p <= 1; no correction marks a row
\* significant whose raw p is not below alpha; and the counts of the summary
\* satisfy Bonferroni <= FDR <= uncorrected <= number of comparisons.
C30_CorrectionsOrdered == CorrectionsOrdered("e1", OneR, alphaR)

\* C30 in the arithmetic of real numbers (SpecCorr): there the whole chain
\* holds.
C30_OrderedInExactArithmetic == CorrectionsOrdered("e1", One, alpha)

\* The part of C30 that holds in doubles: raw p <= Holm p <= Bonferroni p <= 1
\* and FDR p <= Bonferroni p, the Bonferroni and Holm columns mark no row
\* significant whose raw p is not below alpha, and the Bonferroni count is at
\* most the FDR count.
C30_OrderedExceptFdrFromBelow ==
    /\ \A m \in {"holm", "bonferroni"} :
          HasCorr("e1", m) => CorrectedAboveRaw("e1", m, OneR, alphaR)
    /\ (HasCorr("e1", "holm") /\ HasCorr("e1", "bonferroni")) =>
            CorrectedAtMost("e1", "holm", "bonferroni")
    /\ (HasCorr("e1", "fdr_bh") /\ HasCorr("e1", "bonferroni")) =>
            CorrectedAtMost("e1", "fdr_bh", "bonferroni")
    /\ TallyBonferroniAtMostFdr("e1", alphaR)

\* The three corrections are stored on three comparisons; the FDR value of the
\* row with the largest p is below its raw p and below alpha while the raw p is
\* not, so that more comparisons are significant after the FDR correction
\* than before any.
C30_Witness ==
    /\ \A m \in Methods : HasCorr("e1", m)
    /\ Len(Corr("e1", "fdr_bh")) = 3
    /\ \E i \in 1..3 :
          /\ Corr("e1", "fdr_bh")[i].P_Value_FDR_BH < Corr("e1", "fdr_bh")[i].P_Value
          /\ Corr("e1", "fdr_bh")[i].Significant_FDR_BH
          /\ ~Corr("e1", "fdr_bh")[i].Significant
          /\ Corr("e1", "holm")[i].P_Value_HOLM = Corr("e1", "fdr_bh")[i].P_Value
    /\ NumberBelow(Corr("e1", "fdr_bh"), "P_Value_FDR_BH", alphaR)
          > NumberBelow(results["e1"]["ttest"], "P_Value", alphaR)

\* ------------------------------------------- the test type of perform_ttest

\* The argument of the perform_ttest call that has just ended: the table with
\* what scipy returns on it.
DataGiven == CHOOSE d \in EngineData : d.table = ret.data

\* The test whose p-value the row carries is the paired one exactly when the
\* mode is 'paired' and the arms have as many valid observations, and the
\* comparison is warned about ("Unequal sample sizes") exactly when the mode
\* is 'paired' and they have not.
TestRunAsMode(r) ==
    LET nc == Len(Observations(ret.data, r.Gene, "Control"))
        nt == Len(Observations(ret.data, r.Gene, r.Comparison[1]))
        gt == <<r.Gene, r.Comparison[1]>>
    IN  /\ r.Control_N = nc /\ r.Treatment_N = nt
        /\ r.P_Value = (IF ret.arg = "paired" /\ nc = nt
                        THEN DataGiven.ttest_rel[gt] ELSE DataGiven.ttest_ind[gt])
        /\ (ret.arg = "paired" /\ nc # nt)
              <=> (\E w \in 1..Len(warned) :
                      warned[w] = <<"Unequal sample sizes", gt[1], gt[2]>>)

\* C24 as stated: a perform_ttest call with a mode other than 'independent'
\* and 'paired' ends with an error; a call that returns has run, for each
\* row, the paired test only in mode 'paired' on arms of equal valid counts,
\* and the independent test otherwise, with a warning when the mode was
\* 'paired'.
C24_ModeHonouredOrRejected ==
    ret.op = "perform_ttest" =>
        /\ ret.arg \notin {"independent", "paired"} => ret.status = "ValueError"
        /\ ret.status = "ok" => \A i \in 1..Len(ret.value) : TestRunAsMode(ret.value[i])

\* The part of C24 that holds: the rows are as stated, and a mode other than
\* the two is rejected when some comparison of the table has enough data;
\* when none has, the call returns an empty table (line 108 is not reached).
C24_ModeRejectedWhenATestRuns ==
    ret.op = "perform_ttest" =>
        /\ ret.arg \notin {"independent", "paired"} =>
              IF Comparisons(ret.data) # {}
              THEN ret.status = "ValueError"
              ELSE ret.status = "ok" /\ ret.value = <<>>
        /\ ret.arg \in {"independent", "paired"} => ret.status = "ok"
        /\ ret.status = "ok" => \A i \in 1..Len(ret.value) : TestRunAsMode(ret.value[i])

\* A call with the mode 'welch' has returned, without an error, the empty
\* table of a fold-change table on which every comparison is skipped.
C24_Witness ==
    /\ ret.op = "perform_ttest" /\ ret.arg = "welch"
    /\ ret.status = "ok" /\ ret.value = <<>>
    /\ ret.data # <<>> /\ Comparisons(ret.data) = {}
    /\ warned # <<>>

\* A call in mode 'paired' has returned a row of the independent test, with
\* its warning, for arms of unequal valid counts.
C24_PairedWitness ==
    /\ ret.op = "perform_ttest" /\ ret.arg = "paired" /\ ret.status = "ok"
    /\ \E i \in 1..Len(ret.value) :
          LET gt == <<ret.value[i].Gene, ret.value[i].Comparison[1]>>
          IN  /\ ret.value[i].Control_N # ret.value[i].Treatment_N
              /\ ret.value[i].P_Value = DataGiven.ttest_ind[gt]
              /\ ret.value[i].P_Value # DataGiven.ttest_rel[gt]
              /\ warned # <<>>

\* ------------------------------------------------------------------------
\* SpecFrame: a caller that holds one fold-change table (the data of frame A)
\* and passes it, any number of times and in any order, to perform_ttest (with
\* each test type) and to calculate_confidence_intervals (at each level) of
\* one engine, and applies corrections (with each method name) in between.

InitFrame ==
    /\ results = [e \in Engines |-> EmptyDict]
    /\ ret = NoCall
    /\ last_ttest = [e \in Engines |-> NoTTest]
    /\ warned = <<>>
    /\ AnalyzerConstructed
    /\ \E d \in EngineData :
          calls = [c \in Calls |-> [NoFrame EXCEPT !.data = IF c = "A" THEN d ELSE NoData]]

NextFrame ==
    \/ \E t \in TestTypes : PerformTTest("e1", Frame("A").data, t)
    \/ \E m \in Methods \cup {"sidak"} : ApplyCorrection("e1", m)
    \/ \E confidence_level \in Levels : \E t_abs \in TMagnitudes :
          CalculateConfidenceIntervals("e1", Frame("A").data, confidence_level, t_abs)

SpecFrame == InitFrame /\ [][NextFrame]_vars

\* The columns a correction adds.
CorrectionColumns == {PCol(m) : m \in Methods} \cup {SigCol(m) : m \in Methods}

\* The stored t-test table of engine e is the table perform_ttest built, with
\* none of the columns of a correction.
StoredTTestAsBuilt(res, built) ==
    "ttest" \in DOMAIN res =>
        /\ built.done
        /\ res["ttest"] = built.rows
        /\ \A i \in 1..Len(res["ttest"]) :
              (DOMAIN res["ttest"][i]) \cap CorrectionColumns = {}

\* C22: every call leaves the caller's fold-change table as it was; after
\* every call the stored t-test table is still the table perform_ttest
\* built, without any corrected-p or significance column of a method; a
\* correction does not change it, and the two columns of the method are in
\* the table the correction returns and stores under its own key.
C22_NoTableMutated ==
    [][/\ Frame("A").data' = Frame("A").data
       /\ ret'.op \in {"perform_ttest", "calculate_confidence_intervals"}
             => ret'.data = Frame("A").data.table
       /\ \A e \in Engines : StoredTTestAsBuilt(results'[e], last_ttest'[e])
       /\ ret'.op = "calculate_confidence_intervals" => results' = results
       /\ ret'.op = "apply_multiple_comparison_correction" =>
             /\ "ttest" \in DOMAIN results["e1"] =>
                   results'["e1"]["ttest"] = results["e1"]["ttest"]
             /\ ret'.status = "ok" =>
                   /\ results'["e1"]["ttest_" \o ret'.arg] = ret'.value
                   /\ \A i \in 1..Len(ret'.value) :
                         {PCol(ret'.arg), SigCol(ret'.arg)} \subseteq DOMAIN ret'.value[i]]_vars

\* After corrections by all three methods and an interval call on the same
\* table, the stored t-test table of several rows is as perform_ttest built it.
C22_Witness ==
    /\ \A m \in Methods : HasCorr("e1", m)
    /\ ret.op = "calculate_confidence_intervals"
    /\ ret.value # {}
    /\ ret.data = Frame("A").data.table
    /\ Len(results["e1"]["ttest"]) >= 2
    /\ results["e1"]["ttest"] = last_ttest["e1"].rows
    /\ \A m \in Methods : Len(Corr("e1", m)) = Len(results["e1"]["ttest"])

\* ------------------------------------------------------------------------
\* The expression calculator: class qPCRAnalyzer of src/src/qpcr_analyzer.py.

\* qPCRAnalyzer.__init__ (lines 38-39), with its default arguments.
reference_gene == "GAPDH"
control_condition == "Control"

\* The order of the strings of the model, which groupby and pivot_table sort by.
NameOrder ==
    <<"Control", "FOS", "GAPDH", "IL6", "JUN", "MYC",
      "S1", "S2", "S3", "S4", "S5", "TNF", "Treated">>
Rank(name) == CHOOSE i \in 1..Len(NameOrder) : NameOrder[i] = name

\* A key is a tuple of names that ends with the integer Biological_Rep.
KeyRanks(k) == [i \in 1..Len(k) |-> IF i = Len(k) THEN k[i] ELSE Rank(k[i])]

RECURSIVE LexLess(_, _)
LexLess(a, b) ==
    /\ a # <<>>
    /\ b # <<>>
    /\ \/ Head(a) < Head(b)
       \/ Head(a) = Head(b) /\ LexLess(Tail(a), Tail(b))

\* The keys of the set K in ascending order.
RECURSIVE SortedKeys(_)
SortedKeys(K) ==
    IF K = {} THEN <<>>
    ELSE LET m == CHOOSE k \in K :
                    \A q \in K \ {k} : LexLess(KeyRanks(k), KeyRanks(q))
         IN  <<m>> \o SortedKeys(K \ {m})

\* The names of the set S in ascending order.
RECURSIVE SortedNames(_)
SortedNames(S) ==
    IF S = {} THEN <<>>
    ELSE LET m == CHOOSE n \in S : \A q \in S \ {n} : Rank(n) < Rank(q)
         IN  <<m>> \o SortedNames(S \ {m})

\* Series.mean(): the mean of the values that are not NaN, NaN when there is none.
MeanOf(ok) == IF ok = <<>> THEN NaN ELSE Num(SeqSum(Column(ok, "v")) \div Len(ok))
Mean(vals) == MeanOf(dropna(vals))

\* Mutant of line 133: the population standard deviation (ddof = 0), which is
\* 0 for a single value.
StdOfPopulation(ok, mean) ==
    IF Len(ok) < 1 THEN [nan |-> TRUE, ssq |-> 0, dof |-> 0]
    ELSE [nan |-> FALSE,
          ssq |-> SeqSum([i \in 1..Len(ok) |-> (ok[i].v - mean.v) * (ok[i].v - mean.v)]),
          dof |-> Len(ok)]

\* Series.std(): the sample standard deviation sqrt(ssq / dof) of the values
\* that are not NaN, NaN when there are fewer than two.
StdOf(ok, mean) ==
    IF Len(ok) < 2 THEN [nan |-> TRUE, ssq |-> 0, dof |-> 0]
    ELSE [nan |-> FALSE,
          ssq |-> SeqSum([i \in 1..Len(ok) |-> (ok[i].v - mean.v) * (ok[i].v - mean.v)]),
          dof |-> Len(ok) - 1]
Std(vals) == StdOf(dropna(vals), Mean(vals))

\* a - b on floats: NaN when either is.
Sub(a, b) == IF a.nan \/ b.nan THEN NaN ELSE Num(a.v - b.v)

\* What a call leaves behind: the analyzer's attributes, how the call ended
\* and what it returned.
Outcome(self, status, value) == [self |-> self, status |-> status, value |-> value]

\* ---- calculate_technical_replicates_mean (lines 116-140)

GroupKey(r) == <<r.Sample_ID, r.Gene, r.Condition, r.Biological_Rep>>

\* One row of the aggregated table (lines 132-137), from the Ct values of a group.
ReplicateRow(k, cts) ==
    [Sample_ID |-> k[1], Gene |-> k[2], Condition |-> k[3], Biological_Rep |-> k[4],
     Ct_Mean |-> Mean(cts), Ct_Std |-> Std(cts), Tech_Rep_Count |-> Len(dropna(cts))]

\* groupby(grouping_columns).agg(...).reset_index(): one row per key, the keys
\* in ascending order.
ReplicateRows(raw, keys) ==
    [i \in 1..Len(keys) |->
        ReplicateRow(keys[i],
                     Column(SelectSeq(raw, LAMBDA r : GroupKey(r) = keys[i]), "Ct_Value"))]
TechMeans(raw) == ReplicateRows(raw, SortedKeys({GroupKey(raw[i]) : i \in 1..Len(raw)}))

StoreProcessed(self, rows) ==
    Outcome([self EXCEPT !.processed_data = Table(rows)], "ok", rows)

\* The columns of a table: those of its rows.
ColumnsOf(rows) == IF rows = <<>> THEN {} ELSE DOMAIN rows[1]

\* The columns that lines 129-133 read; groupby and agg raise KeyError when
\* one is absent.
GroupingColumns == {"Sample_ID", "Gene", "Condition", "Biological_Rep"}

\* Mutant of lines 125-126: an analyzer without data is treated as one holding
\* an empty table.
calculate_replicates_of_nothing(self) ==
    IF self.raw_data.none
    THEN StoreProcessed(self, <<>>)
    ELSE IF ~((GroupingColumns \cup {"Ct_Value"}) \subseteq ColumnsOf(self.raw_data.rows))
    THEN Outcome(self, "KeyError", <<>>)
    ELSE StoreProcessed(self, TechMeans(self.raw_data.rows))

calculate_technical_replicates_mean(self) ==
    IF self.raw_data.none
    THEN Outcome(self, "ValueError", <<"No data loaded">>)
    ELSE IF ~((GroupingColumns \cup {"Ct_Value"}) \subseteq ColumnsOf(self.raw_data.rows))
    THEN Outcome(self, "KeyError", <<>>)
    ELSE StoreProcessed(self, TechMeans(self.raw_data.rows))

\* ---- calculate_delta_ct (lines 142-193)

IndexKey(r) == <<r.Sample_ID, r.Condition, r.Biological_Rep>>

\* pivot_table (lines 155-160) aggregates Ct_Mean by (index, Gene) with the
\* mean and drops the groups whose mean is NaN: the cells of the pivot.
PivotCells(processed) == SelectSeq(processed, LAMBDA r : notna(r.Ct_Mean))

\* The rows and the gene columns of the pivot, both sorted.
PivotIndex(cells) == SortedKeys({IndexKey(cells[i]) : i \in 1..Len(cells)})
PivotColumns(cells) == SortedNames({cells[i].Gene : i \in 1..Len(cells)})

\* row[gene] of a pivot row: the mean of the cell, NaN (the fill value) when
\* the row has no such cell.
PivotValue(cells, idx, gene) ==
    Mean(Column(SelectSeq(cells, LAMBDA r : IndexKey(r) = idx /\ r.Gene = gene),
                "Ct_Mean"))

\* Mutant of line 177: a missing value counts as 0 and the row is emitted.
DeltaCtRowZeroFilled(idx, target_gene, reference_ct, target_ct) ==
    <<[Sample_ID |-> idx[1], Condition |-> idx[2], Biological_Rep |-> idx[3],
       Target_Gene |-> target_gene, Reference_Gene |-> reference_gene,
       Target_Ct |-> IF target_ct.nan THEN Num(0) ELSE target_ct,
       Reference_Ct |-> IF reference_ct.nan THEN Num(0) ELSE reference_ct,
       Delta_Ct |-> Num((IF target_ct.nan THEN 0 ELSE target_ct.v)
                        - (IF reference_ct.nan THEN 0 ELSE reference_ct.v))]>>

\* Lines 172-189 for one pivot row and one target gene.
DeltaCtRow(idx, target_gene, reference_ct, target_ct) ==
    IF notna(reference_ct) /\ notna(target_ct)
    THEN <<[Sample_ID |-> idx[1], Condition |-> idx[2], Biological_Rep |-> idx[3],
            Target_Gene |-> target_gene, Reference_Gene |-> reference_gene,
            Target_Ct |-> target_ct, Reference_Ct |-> reference_ct,
            Delta_Ct |-> Sub(target_ct, reference_ct)]>>
    ELSE <<>>

\* Lines 167-189: the list delta_ct_results.
DeltaCtRows(cells, index, target_genes) ==
    Flatten([i \in 1..Len(index) |->
        Flatten([j \in 1..Len(target_genes) |->
            DeltaCtRow(index[i], target_genes[j],
                       PivotValue(cells, index[i], reference_gene),
                       PivotValue(cells, index[i], target_genes[j]))])])

StoreDeltaCt(self, rows) ==
    Outcome([self EXCEPT !.delta_ct_data = Table(rows)], "ok", rows)

\* Mutant of lines 163-164: the reference gene is not looked for.
DeltaCtOfPivotUnchecked(self, cells, columns) ==
    StoreDeltaCt(self,
        DeltaCtRows(cells, PivotIndex(cells),
                    SelectSeq(columns, LAMBDA g : g # reference_gene)))

\* Lines 155-193 on the pivot cells and columns.
DeltaCtOfPivot(self, cells, columns) ==
    IF \A j \in 1..Len(columns) : columns[j] # reference_gene
    THEN Outcome(self, "ValueError", <<"Reference gene not found">>)
    ELSE StoreDeltaCt(self,
            DeltaCtRows(cells, PivotIndex(cells),
                        SelectSeq(columns, LAMBDA g : g # reference_gene)))

DeltaCtOfCells(self, cells) == DeltaCtOfPivot(self, cells, PivotColumns(cells))

\* Lines 155-193, after the call of line 152 (if any) ended in `pre`.
DeltaCtAfter(pre) ==
    IF pre.status # "ok" THEN pre
    ELSE DeltaCtOfCells(pre.self, PivotCells(pre.self.processed_data.rows))

calculate_delta_ct(self) ==
    DeltaCtAfter(IF self.processed_data.none
                 THEN calculate_technical_replicates_mean(self)
                 ELSE Outcome(self, "ok", <<>>))

\* ---- calculate_delta_delta_ct (lines 195-236)

\* The thresholds of a double: 2 ** x is 0.0 for x <= -1075 (half the smallest
\* subnormal rounds to zero) and exceeds the largest double for x >= 1024.
PowUnderflow == 1075
PowOverflow == 1024

\* 2 ** x, for x = e / CtUnit: a positive double, 0.0 on underflow, and on
\* overflow FoldInf (numpy's float power) or a raise (python's float power).
Overflows(e) == e >= PowOverflow * CtUnit
pow2(e) ==
    IF e <= -(PowUnderflow * CtUnit) THEN FoldZero
    ELSE IF Overflows(e) THEN FoldInf
    ELSE [nan |-> FALSE, inf |-> FALSE, sign |-> 1, log2 |-> e]

\* Mutant of line 221: the exponent is not negated.
fold_change_unnegated(delta_delta_ct) ==
    IF notna(delta_delta_ct) THEN pow2(delta_delta_ct.v) ELSE FoldNaN

\* fold_change = 2 ** (-delta_delta_ct) if pd.notna(delta_delta_ct) else np.nan
fold_change(delta_delta_ct) ==
    IF notna(delta_delta_ct) THEN pow2(-delta_delta_ct.v) ELSE FoldNaN

\* The control rows of one gene, in table order.
ControlRows(delta, gene) ==
    SelectSeq(delta, LAMBDA r : r.Condition = control_condition /\ r.Target_Gene = gene)

\* Mutant of lines 208-210: the baseline is the first control row's value.
control_delta_ct_first_row(delta) ==
    [g \in {delta[i].Target_Gene :
                i \in {j \in 1..Len(delta) : delta[j].Condition = control_condition}} |->
        ControlRows(delta, g)[1].Delta_Ct]

\* Lines 208-210: the dict gene -> mean Delta_Ct of its control rows; a gene
\* without control rows is not a key.
control_delta_ct(delta) ==
    [g \in {delta[i].Target_Gene :
                i \in {j \in 1..Len(delta) : delta[j].Condition = control_condition}} |->
        Mean(Column(ControlRows(delta, g), "Delta_Ct"))]

\* Mutant of line 217: a gene without baseline gets the baseline 0.
DictGetZero(d, key, default) == IF key \in DOMAIN d THEN d[key] ELSE Num(0)

\* control_delta_ct.get(target_gene, np.nan)   (line 217)
DictGet(d, key, default) == IF key \in DOMAIN d THEN d[key] ELSE default

\* Lines 220-232: the result row of one row of the delta-Ct table.
DeltaDeltaCtRow(row, control_mean_delta_ct, delta_delta_ct) ==
    [Sample_ID |-> row.Sample_ID, Condition |-> row.Condition,
     Biological_Rep |-> row.Biological_Rep, Target_Gene |-> row.Target_Gene,
     Delta_Ct |-> row.Delta_Ct, Control_Mean_Delta_Ct |-> control_mean_delta_ct,
     Delta_Delta_Ct |-> delta_delta_ct, Fold_Change |-> fold_change(delta_delta_ct)]

\* Lines 216-232 for one gene.
GeneResults(gene_data, control_mean_delta_ct) ==
    [i \in 1..Len(gene_data) |->
        DeltaDeltaCtRow(gene_data[i], control_mean_delta_ct,
                        Sub(gene_data[i].Delta_Ct, control_mean_delta_ct))]

\* Lines 213-232: the list `results`, gene by gene in order of first appearance.
DeltaDeltaCtLoop(delta, control_means, genes) ==
    Flatten([g \in 1..Len(genes) |->
        GeneResults(RowsWhere(delta, "Target_Gene", genes[g]),
                    DictGet(control_means, genes[g], NaN))])
DeltaDeltaCtRows(delta) ==
    DeltaDeltaCtLoop(delta, control_delta_ct(delta), Unique(Column(delta, "Target_Gene")))

\* Some row's power overflows.
SomeOverflow(rows) ==
    \E i \in 1..Len(rows) :
        notna(rows[i].Delta_Delta_Ct) /\ Overflows(-rows[i].Delta_Delta_Ct.v)

StoreDeltaDeltaCt(self, rows) ==
    Outcome([self EXCEPT !.delta_delta_ct_data = Table(rows)], "ok", rows)

\* Lines 213-236 on the rows built; on_overflow is what the power does when
\* it overflows.
DeltaDeltaCtOfRows(self, rows, on_overflow) ==
    IF SomeOverflow(rows) /\ on_overflow = "OverflowError"
    THEN Outcome(self, "OverflowError", <<>>)
    ELSE StoreDeltaDeltaCt(self, rows)

\* Lines 208-236, after the call of line 205 (if any) ended in `pre`.  An
\* empty delta-Ct table has no column 'Condition'.
DeltaDeltaCtAfter(pre, on_overflow) ==
    IF pre.status # "ok" THEN pre
    ELSE IF pre.self.delta_ct_data.rows = <<>> THEN Outcome(pre.self, "KeyError", <<>>)
    ELSE DeltaDeltaCtOfRows(pre.self, DeltaDeltaCtRows(pre.self.delta_ct_data.rows),
                            on_overflow)

calculate_delta_delta_ct(self, on_overflow) ==
    DeltaDeltaCtAfter(IF self.delta_ct_data.none
                      THEN calculate_delta_ct(self)
                      ELSE Outcome(self, "ok", <<>>),
                      on_overflow)

\* ---- the analyzer as a state machine

Self ==
    [raw_data |-> raw_data, processed_data |-> processed_data,
     delta_ct_data |-> delta_ct_data, delta_delta_ct_data |-> delta_delta_ct_data,
     validated |-> validated]

\* What an analyzer call named op that ended in `out` leaves behind.
AnalyzerEffect(op, out) ==
    /\ raw_data' = out.self.raw_data
    /\ processed_data' = out.self.processed_data
    /\ delta_ct_data' = out.self.delta_ct_data
    /\ delta_delta_ct_data' = out.self.delta_delta_ct_data
    /\ validated' = out.self.validated
    /\ aret' = [op |-> op, engine |-> "", arg |-> "", status |-> out.status,
                value |-> out.value]
    /\ UNCHANGED <<engine_vars, calls>>

CalculateTechnicalReplicatesMean ==
    AnalyzerEffect("calculate_technical_replicates_mean",
                   calculate_technical_replicates_mean(Self))

CalculateDeltaCt == AnalyzerEffect("calculate_delta_ct", calculate_delta_ct(Self))

CalculateDeltaDeltaCt ==
    \E on_overflow \in {"OverflowError", "inf"} :
        AnalyzerEffect("calculate_delta_delta_ct",
                       calculate_delta_delta_ct(Self, on_overflow))

\* ------------------------------------------------------------------------
\* SpecDDCt: one analyzer on which load_data has read a raw table (or has not
\* been called), under any sequence of calculate_technical_replicates_mean,
\* calculate_delta_ct and calculate_delta_delta_ct calls.

\* The Ct of the reference gene in every sample, the differences of a target's
\* Ct to it that the raw tables draw from, and one far above the valid range
\* of line 102 (Ct > 40 is only warned about).
RefCt == 20
TnfDelta == 2
ValidDeltas == {0, 4}
InvalidDelta == 1200

\* The measurement of IL6 in one sample: absent, or its Ct (which may be NaN).
CellChoices ==
    {[present |-> FALSE, ct |-> NaN], [present |-> TRUE, ct |-> NaN]}
    \cup {[present |-> TRUE, ct |-> Num((RefCt + d) * CtUnit)] :
            d \in ValidDeltas \cup {InvalidDelta}}

SampleIDs == <<"S1", "S2", "S3", "S4", "S5">>

\* Sample s has 1 + (s % MaxTech) technical replicates of each measurement,
\* spread evenly around the Ct.
TechCount(s) == 1 + (s % MaxTech)
TechOffset(t, j) == 2 * j - (t + 1)
Measurement(s, gene, condition, ct) ==
    [j \in 1..TechCount(s) |->
        [Sample_ID |-> SampleIDs[s], Gene |-> gene, Condition |-> condition,
         Biological_Rep |-> s, Technical_Rep |-> j,
         Ct_Value |-> IF ct.nan THEN NaN ELSE Num(ct.v + TechOffset(TechCount(s), j))]]

\* The rows of sample s: IL6 as chosen, TNF in the last sample only, then the
\* reference gene.
SampleRows(s, condition, il6) ==
    (IF il6.present THEN Measurement(s, "IL6", condition, il6.ct) ELSE <<>>)
    \o (IF s = MaxSamples
        THEN Measurement(s, "TNF", condition, Num((RefCt + TnfDelta) * CtUnit))
        ELSE <<>>)
    \o Measurement(s, "GAPDH", condition, Num(RefCt * CtUnit))

\* A raw table: the samples from the last to the first.
RawTable(conditions, il6) ==
    Flatten([i \in 1..MaxSamples |->
        SampleRows(MaxSamples + 1 - i, conditions[MaxSamples + 1 - i],
                   il6[MaxSamples + 1 - i])])

\* The first k samples are controls, the others treated.
ConditionsFor(k) == [s \in 1..MaxSamples |-> IF s <= k THEN "Control" ELSE "Treated"]

RawTables ==
    {RawTable(ConditionsFor(k), x) : k \in 0..MaxSamples,
                                     x \in [1..MaxSamples -> CellChoices]}

InitDDCt ==
    /\ results = [e \in Engines |-> EmptyDict]
    /\ ret = NoCall
    /\ last_ttest = [e \in Engines |-> NoTTest]
    /\ warned = <<>>
    /\ NoCallsRunning
    /\ raw_data \in {None} \cup {Table(t) : t \in RawTables}
    /\ processed_data = None
    /\ delta_ct_data = None
    /\ delta_delta_ct_data = None
    /\ aret = NoCall
    /\ validated = NotValidated

NextDDCt ==
    \/ CalculateTechnicalReplicatesMean
    \/ CalculateDeltaCt
    \/ CalculateDeltaDeltaCt

SpecDDCt == InitDDCt /\ [][NextDDCt]_vars

\* ---------------------------------------- claims on the delta-delta-Ct table

\* The rows of the stored delta-delta-Ct table, none while it is None.
DDCt == delta_delta_ct_data.rows

\* The largest valid Ct (line 102): a Ct is valid when 0 < Ct <= 40.
CtCeiling == 40
AllCtValid ==
    \A i \in 1..Len(raw_data.rows) :
        LET ct == raw_data.rows[i].Ct_Value
        IN  notna(ct) => (0 < ct.v /\ ct.v <= CtCeiling * CtUnit)

\* 2^(-x) is a positive finite double: -1024 < x < 1075.
InDoubleRange(x) ==
    /\ -(PowOverflow * CtUnit) < x.v
    /\ x.v < PowUnderflow * CtUnit

\* The fold change f is the positive real 2^(-x).
IsPowerOfMinus(f, x) == ~f.nan /\ ~f.inf /\ f.sign = 1 /\ f.log2 = -x.v

\* C9 as stated: in every row of the delta-delta-Ct table with a defined
\* delta_delta_ct, fold_change is 2^(-delta_delta_ct) and positive; and
\* fold_change is undefined exactly when delta_delta_ct is.
C9_FoldChangeIsPower ==
    \A i \in 1..Len(DDCt) :
        /\ notna(DDCt[i].Delta_Delta_Ct) =>
              IsPowerOfMinus(DDCt[i].Fold_Change, DDCt[i].Delta_Delta_Ct)
        /\ DDCt[i].Fold_Change.nan <=> DDCt[i].Delta_Delta_Ct.nan

\* C9 as it holds: in every row of the delta-delta-Ct table whose
\* delta_delta_ct is defined and lies strictly between -1024 and 1075,
\* fold_change is 2^(-delta_delta_ct) and positive; fold_change is undefined
\* exactly when delta_delta_ct is; and when every Ct of the raw table is valid
\* (0 < Ct <= 40) every defined delta_delta_ct lies in that range.
C9_FoldChangeIsPowerInRange ==
    \A i \in 1..Len(DDCt) :
        /\ (notna(DDCt[i].Delta_Delta_Ct) /\ InDoubleRange(DDCt[i].Delta_Delta_Ct)) =>
              IsPowerOfMinus(DDCt[i].Fold_Change, DDCt[i].Delta_Delta_Ct)
        /\ DDCt[i].Fold_Change.nan <=> DDCt[i].Delta_Delta_Ct.nan
        /\ (AllCtValid /\ notna(DDCt[i].Delta_Delta_Ct)) =>
              InDoubleRange(DDCt[i].Delta_Delta_Ct)

\* A table computed from valid Ct values, with a row above its baseline, a row
\* below it, and a row of a gene without baseline.
C9_Witness ==
    /\ AllCtValid
    /\ \E i \in 1..Len(DDCt) :
          notna(DDCt[i].Delta_Delta_Ct) /\ DDCt[i].Delta_Delta_Ct.v > 0
    /\ \E i \in 1..Len(DDCt) :
          notna(DDCt[i].Delta_Delta_Ct) /\ DDCt[i].Delta_Delta_Ct.v < 0
    /\ \E i \in 1..Len(DDCt) : DDCt[i].Delta_Delta_Ct.nan

\* The rows of a table as a set.
RowSet(tbl) == {tbl[i] : i \in 1..Len(tbl)}

\* The last call was a calculate_delta_delta_ct that stored its table.
DDCtJustReturned == aret.op = "calculate_delta_delta_ct" /\ aret.status = "ok"

\* C10: in the delta-delta-Ct table, computed from the stored delta-Ct table,
\* there is one row per delta-Ct row; the baseline of a row whose gene has
\* control rows is the arithmetic mean of Delta_Ct over all of them; all rows
\* of a gene carry the same baseline; delta_delta_ct = Delta_Ct - baseline; and
\* the rows computed from any reordering of the delta-Ct rows are the same.
C10_BaselineIsFullControlMean ==
    ~delta_delta_ct_data.none =>
        LET D == delta_ct_data.rows
        IN  /\ Len(DDCt) = Len(D)
            /\ \A j \in 1..Len(D) : \E i \in 1..Len(DDCt) :
                  /\ DDCt[i].Sample_ID = D[j].Sample_ID
                  /\ DDCt[i].Target_Gene = D[j].Target_Gene
                  /\ DDCt[i].Delta_Ct = D[j].Delta_Ct
            /\ \A i \in 1..Len(DDCt) :
                  LET ctl == Column(ControlRows(D, DDCt[i].Target_Gene), "Delta_Ct")
                      base == DDCt[i].Control_Mean_Delta_Ct
                  IN  ctl # <<>> =>
                        /\ notna(base)
                        /\ base.v * Len(ctl) = SeqSum(Column(ctl, "v"))
                        /\ DDCt[i].Delta_Delta_Ct = Num(DDCt[i].Delta_Ct.v - base.v)
            /\ \A i, j \in 1..Len(DDCt) :
                  DDCt[i].Target_Gene = DDCt[j].Target_Gene =>
                      DDCt[i].Control_Mean_Delta_Ct = DDCt[j].Control_Mean_Delta_Ct
            /\ DDCtJustReturned =>
                  \A pi \in Perms(Len(D)) :
                      RowSet(DeltaDeltaCtRows(Permute(D, pi))) = RowSet(DDCt)

\* A table in which a gene has two control rows of different Delta_Ct, so that
\* the baseline is neither of them, and a treated row.
C10_Witness ==
    /\ DDCtJustReturned
    /\ \E i, j, k \in 1..Len(DDCt) :
          /\ DDCt[i].Target_Gene = DDCt[j].Target_Gene
          /\ DDCt[k].Target_Gene = DDCt[i].Target_Gene
          /\ DDCt[i].Condition = control_condition
          /\ DDCt[j].Condition = control_condition
          /\ DDCt[k].Condition # control_condition
          /\ DDCt[i].Delta_Ct.v < DDCt[j].Delta_Ct.v
          /\ notna(DDCt[k].Delta_Delta_Ct)
          /\ DDCt[i].Delta_Delta_Ct.v < 0
          /\ DDCt[j].Delta_Delta_Ct.v > 0

\* The row of the delta-delta-Ct table made from the delta-Ct row d.
IsResultOf(r, d) ==
    /\ r.Sample_ID = d.Sample_ID
    /\ r.Condition = d.Condition
    /\ r.Biological_Rep = d.Biological_Rep
    /\ r.Target_Gene = d.Target_Gene
    /\ r.Delta_Ct = d.Delta_Ct

\* C11: in the delta-delta-Ct table, every delta-Ct row of a gene without
\* control rows has its output row, with Control_Mean_Delta_Ct, delta_delta_ct
\* and fold_change all undefined (NaN, not 0); every row of a gene that has
\* control rows has a defined baseline and delta_delta_ct; and the call does
\* not raise on account of a missing baseline (it raises only on an empty
\* delta-Ct table, on missing data, or when a power overflows).
C11_NoControlRowsUndefined ==
    /\ ~delta_delta_ct_data.none =>
          \A j \in 1..Len(delta_ct_data.rows) :
              LET d == delta_ct_data.rows[j]
              IN  \E i \in 1..Len(DDCt) :
                    /\ IsResultOf(DDCt[i], d)
                    /\ IF ControlRows(delta_ct_data.rows, d.Target_Gene) = <<>>
                       THEN /\ DDCt[i].Control_Mean_Delta_Ct = NaN
                            /\ DDCt[i].Delta_Delta_Ct = NaN
                            /\ DDCt[i].Fold_Change = FoldNaN
                       ELSE /\ notna(DDCt[i].Control_Mean_Delta_Ct)
                            /\ notna(DDCt[i].Delta_Delta_Ct)
                            /\ ~DDCt[i].Fold_Change.nan
    /\ (aret.op = "calculate_delta_delta_ct" /\ aret.status # "ok") =>
          \/ aret.status = "ValueError" /\ delta_ct_data.none
          \/ aret.status = "KeyError" /\ delta_ct_data.rows = <<>>
          \/ /\ aret.status = "OverflowError"
             /\ SomeOverflow(DeltaDeltaCtRows(delta_ct_data.rows))

\* A call that returned a table with a row of TNF, which has no control row,
\* next to a control and a treated row of IL6, which are computed.
C11_Witness ==
    /\ DDCtJustReturned
    /\ \E i, j, k \in 1..Len(DDCt) :
          /\ DDCt[i].Target_Gene = "TNF"
          /\ DDCt[i].Control_Mean_Delta_Ct.nan /\ DDCt[i].Fold_Change.nan
          /\ DDCt[j].Target_Gene = "IL6" /\ DDCt[j].Condition = "Control"
          /\ DDCt[k].Target_Gene = "IL6" /\ DDCt[k].Condition = "Treated"
          /\ notna(DDCt[k].Delta_Delta_Ct) /\ DDCt[k].Delta_Delta_Ct.v # 0
          /\ DDCt[k].Fold_Change.sign = 1

\* ------------------------------------------------------------------------
\* SpecDCt: one analyzer on which load_data has read a raw table in which, in
\* every sample, the reference gene and IL6 are each absent, measured as NaN
\* or measured with a valid Ct; under any sequence of
\* calculate_technical_replicates_mean and calculate_delta_ct calls.

TargetDelta == 4
MeasuredChoices(ct) ==
    {[present |-> FALSE, ct |-> NaN], [present |-> TRUE, ct |-> NaN],
     [present |-> TRUE, ct |-> Num(ct * CtUnit)]}

\* The rows of sample s: IL6 and the reference gene as chosen, TNF (always
\* measured) in the last sample only.
SampleRowsRef(s, condition, il6, ref) ==
    (IF il6.present THEN Measurement(s, "IL6", condition, il6.ct) ELSE <<>>)
    \o (IF s = MaxSamples
        THEN Measurement(s, "TNF", condition, Num((RefCt + TnfDelta) * CtUnit))
        ELSE <<>>)
    \o (IF ref.present THEN Measurement(s, "GAPDH", condition, ref.ct) ELSE <<>>)

\* A raw table: the samples from the last to the first, the first a control.
RawTableRef(il6, ref) ==
    Flatten([i \in 1..MaxSamples |->
        SampleRowsRef(MaxSamples + 1 - i, ConditionsFor(1)[MaxSamples + 1 - i],
                      il6[MaxSamples + 1 - i], ref[MaxSamples + 1 - i])])

RawTablesRef ==
    {RawTableRef(x, r) : x \in [1..MaxSamples -> MeasuredChoices(RefCt + TargetDelta)],
                         r \in [1..MaxSamples -> MeasuredChoices(RefCt)]}

InitDCt ==
    /\ results = [e \in Engines |-> EmptyDict]
    /\ ret = NoCall
    /\ last_ttest = [e \in Engines |-> NoTTest]
    /\ warned = <<>>
    /\ NoCallsRunning
    /\ raw_data \in {Table(t) : t \in RawTablesRef}
    /\ processed_data = None
    /\ delta_ct_data = None
    /\ delta_delta_ct_data = None
    /\ aret = NoCall
    /\ validated = NotValidated

NextDCt ==
    \/ CalculateTechnicalReplicatesMean
    \/ CalculateDeltaCt

SpecDCt == InitDCt /\ [][NextDCt]_vars

\* The replicate means with a defined Ct_Mean of gene g under the key idx.
MeansAt(idx, g) ==
    SelectSeq(processed_data.rows,
              LAMBDA r : IndexKey(r) = idx /\ r.Gene = g /\ notna(r.Ct_Mean))

\* The delta-Ct rows of target gene g under the key idx.
DeltaAt(idx, g) ==
    SelectSeq(delta_ct_data.rows,
              LAMBDA d : <<d.Sample_ID, d.Condition, d.Biological_Rep>> = idx
                         /\ d.Target_Gene = g)

\* C12: in the stored delta-Ct table there is a row for a key (sample,
\* condition, biological replicate) and a gene exactly when the gene is not the
\* reference gene and both it and the reference gene have a defined mean Ct
\* under that key; there is then one such row, its Delta_Ct is the target's
\* mean Ct minus the reference's; every row of the table is of this kind.
C12_DeltaCtRowsWhereBothPresent ==
    ~delta_ct_data.none =>
        /\ \A i \in 1..Len(processed_data.rows) :
           \A j \in 1..Len(processed_data.rows) :
              LET idx == IndexKey(processed_data.rows[i])
                  g == processed_data.rows[j].Gene
                  t == MeansAt(idx, g)
                  r == MeansAt(idx, reference_gene)
                  d == DeltaAt(idx, g)
              IN  IF g # reference_gene /\ t # <<>> /\ r # <<>>
                  THEN /\ Len(d) = 1
                       /\ d[1].Target_Ct = t[1].Ct_Mean
                       /\ d[1].Reference_Ct = r[1].Ct_Mean
                       /\ d[1].Delta_Ct = Num(t[1].Ct_Mean.v - r[1].Ct_Mean.v)
                  ELSE d = <<>>
        /\ \A k \in 1..Len(delta_ct_data.rows) :
              LET d == delta_ct_data.rows[k]
              IN  /\ d.Target_Gene # reference_gene
                  /\ notna(d.Delta_Ct)
                  /\ MeansAt(<<d.Sample_ID, d.Condition, d.Biological_Rep>>,
                             d.Target_Gene) # <<>>
                  /\ MeansAt(<<d.Sample_ID, d.Condition, d.Biological_Rep>>,
                             reference_gene) # <<>>

\* A stored delta-Ct table with a row, computed from replicate means in which
\* one key lacks the reference value (measured as NaN) and another key lacks
\* the target (not measured), neither of which has a row.
C12_Witness ==
    /\ ~delta_ct_data.none
    /\ Len(delta_ct_data.rows) >= 1
    /\ \E i, j \in 1..Len(processed_data.rows) :
          LET a == processed_data.rows[i]
              b == processed_data.rows[j]
          IN  /\ a.Gene = reference_gene /\ a.Ct_Mean.nan
              /\ MeansAt(IndexKey(a), "IL6") # <<>>
              /\ DeltaAt(IndexKey(a), "IL6") = <<>>
              /\ b.Gene = reference_gene /\ notna(b.Ct_Mean)
              /\ \A k \in 1..Len(processed_data.rows) :
                    IndexKey(processed_data.rows[k]) = IndexKey(b) =>
                        processed_data.rows[k].Gene # "IL6"

\* ------------------------------------------------------------------------
\* SpecReplicates: calculate_technical_replicates_mean on every raw table of
\* two groups of one sample and gene that differ in the biological replicate
\* only, each with 1 to MaxTech technical replicates whose Ct is one of two
\* values or NaN.

ReplicateCts == {NaN, Num(RefCt * CtUnit), Num((RefCt + TnfDelta) * CtUnit)}
ReplicateGroups == UNION {[1..n -> ReplicateCts] : n \in 1..MaxTech}

\* The measurements of IL6 in sample S1, biological replicate rep.
GroupMeasurements(rep, cts) ==
    [j \in 1..Len(cts) |->
        [Sample_ID |-> "S1", Gene |-> "IL6", Condition |-> "Control",
         Biological_Rep |-> rep, Technical_Rep |-> j, Ct_Value |-> cts[j]]]

InitReplicates ==
    /\ results = [e \in Engines |-> EmptyDict]
    /\ ret = NoCall
    /\ last_ttest = [e \in Engines |-> NoTTest]
    /\ warned = <<>>
    /\ NoCallsRunning
    /\ \E a \in ReplicateGroups : \E b \in ReplicateGroups :
          raw_data = Table(GroupMeasurements(2, b) \o GroupMeasurements(1, a))
    /\ processed_data = None
    /\ delta_ct_data = None
    /\ delta_delta_ct_data = None
    /\ aret = NoCall
    /\ validated = NotValidated

NextReplicates == CalculateTechnicalReplicatesMean

SpecReplicates == InitReplicates /\ [][NextReplicates]_vars

\* The key (sample, gene, condition, biological replicate) of a row.
KeyOf(r) == <<r.Sample_ID, r.Gene, r.Condition, r.Biological_Rep>>

\* The Ct values of the measurements of the raw table under the key k.
CtsOf(k) == Column(SelectSeq(raw_data.rows, LAMBDA r : KeyOf(r) = k), "Ct_Value")

\* All the technical replicates have the same, defined, Ct value.
SameCt(cts) == \A i \in 1..Len(cts) : notna(cts[i]) /\ cts[i] = cts[1]

\* The row of a group of identical replicates: Ct_Mean is the shared value,
\* and Ct_Std is 0, from `least` replicates on; below, it is undefined (NaN).
IdenticalGroupRow(row, cts, least) ==
    /\ row.Ct_Mean = cts[1]
    /\ row.Tech_Rep_Count = Len(cts)
    /\ IF Len(cts) >= least THEN ~row.Ct_Std.nan /\ row.Ct_Std.ssq = 0
                             ELSE row.Ct_Std.nan

\* The replicate means have one row per key of the raw table, and the row of
\* every group of identical replicates is as IdenticalGroupRow says.
OneRowPerGroup(least) ==
    /\ \A i \in 1..Len(raw_data.rows) :
          \E p \in 1..Len(processed_data.rows) :
              /\ KeyOf(processed_data.rows[p]) = KeyOf(raw_data.rows[i])
              /\ \A q \in 1..Len(processed_data.rows) :
                    KeyOf(processed_data.rows[q]) = KeyOf(raw_data.rows[i]) => q = p
              /\ SameCt(CtsOf(KeyOf(raw_data.rows[i])))
                    => IdenticalGroupRow(processed_data.rows[p],
                                         CtsOf(KeyOf(raw_data.rows[i])), least)
    /\ \A p \in 1..Len(processed_data.rows) :
          \E i \in 1..Len(raw_data.rows) :
              KeyOf(processed_data.rows[p]) = KeyOf(raw_data.rows[i])

load_data(self, file) ==
    IF ~file.exists
    THEN Outcome(self, "FileNotFoundError", <<>>)
    ELSE Outcome([self EXCEPT !.raw_data = Table(file.rows),
                              !.validated = NotValidated],
                 "ok", file.rows)

\* Mutant of line 81: Sample_ID is not required.
required_columns_without_sample == <<"Gene", "Condition", "Ct_Value">>

\* Line 81.
required_columns == <<"Sample_ID", "Gene", "Condition", "Ct_Value">>

\* Line 102: the Ct is NaN, <= 0 or > 40.
invalid_ct(ct) == ct.nan \/ ct.v <= 0 \/ ct.v > CtCeiling * CtUnit

\* Lines 93-104 on the rows: the warnings, in the order they are appended.
ValidationWarnings(rows, invalid) ==
    (IF \A i \in 1..Len(rows) : rows[i].Gene # reference_gene
     THEN <<[warning |-> "Reference gene not found", count |-> 0]>> ELSE <<>>)
    \o (IF \A i \in 1..Len(rows) : rows[i].Condition # control_condition
        THEN <<[warning |-> "Control condition not found", count |-> 0]>> ELSE <<>>)
    \o (IF invalid # <<>>
        THEN <<[warning |-> "invalid Ct values", count |-> Len(invalid)]>> ELSE <<>>)

\* Lines 84-114 once the columns are there: the dict returned; the history
\* keeps its warnings.
Validated(self, warnings) ==
    Outcome([self EXCEPT !.validated = [done |-> TRUE, warnings |-> warnings]],
            "ok", <<[valid |-> TRUE, missing_columns |-> <<>>, warnings |-> warnings]>>)

ValidateColumns(self, missing_columns) ==
    IF missing_columns # <<>>
    THEN Outcome(self, "ValueError", <<"Missing required columns">> \o missing_columns)
    ELSE Validated(self,
            ValidationWarnings(self.raw_data.rows,
                SelectSeq(self.raw_data.rows, LAMBDA r : invalid_ct(r.Ct_Value))))

validate_data(self) ==
    IF self.raw_data.none
    THEN Outcome(self, "ValueError", <<"No data loaded">>)
    ELSE ValidateColumns(self,
            SelectSeq(required_columns,
                      LAMBDA col : col \notin ColumnsOf(self.raw_data.rows)))

\* The groups of get_summary_statistics (lines 250-254): their keys and the
\* number of defined fold changes.  The rounded statistics are not kept.
SummaryOf(rows) ==
    {[Target_Gene |-> k[1], Condition |-> k[2],
      count |-> Len(SelectSeq(rows, LAMBDA r : r.Target_Gene = k[1]
                                                /\ r.Condition = k[2]
                                                /\ ~r.Fold_Change.nan))] :
        k \in {<<rows[i].Target_Gene, rows[i].Condition>> : i \in 1..Len(rows)}}

SummaryAfter(pre) ==
    IF pre.status # "ok" THEN pre
    ELSE Outcome(pre.self, "ok", SummaryOf(pre.self.delta_delta_ct_data.rows))

get_summary_statistics(self, on_overflow) ==
    SummaryAfter(IF self.delta_delta_ct_data.none
                 THEN calculate_delta_delta_ct(self, on_overflow)
                 ELSE Outcome(self, "ok", <<>>))

\* run_complete_analysis (lines 259-298): each call goes on from where the
\* one before it ended, and a raise ends the run.
Raised(pre) == pre.status # "ok"

\* Lines 292-298.
RunResult(pre) ==
    IF Raised(pre) THEN pre
    ELSE Outcome(pre.self, "ok",
                 [raw_data |-> pre.self.raw_data.rows,
                  processed_data |-> pre.self.processed_data.rows,
                  delta_ct_data |-> pre.self.delta_ct_data.rows,
                  delta_delta_ct_data |-> pre.self.delta_delta_ct_data.rows,
                  summary_statistics |-> pre.value])

\* Line 285 and on, lines 282, 281, 280 and 277 and on.
RunFromDeltaDeltaCt(pre, on_overflow) ==
    RunResult(IF Raised(pre) THEN pre
              ELSE get_summary_statistics(pre.self, on_overflow))
RunFromDeltaCt(pre, on_overflow) ==
    RunFromDeltaDeltaCt(IF Raised(pre) THEN pre
                        ELSE calculate_delta_delta_ct(pre.self, on_overflow),
                        on_overflow)
RunFromMeans(pre, on_overflow) ==
    RunFromDeltaCt(IF Raised(pre) THEN pre ELSE calculate_delta_ct(pre.self),
                   on_overflow)
RunFromValidate(pre, on_overflow) ==
    RunFromMeans(IF Raised(pre) THEN pre
                 ELSE calculate_technical_replicates_mean(pre.self),
                 on_overflow)
RunFromLoad(pre, on_overflow) ==
    RunFromValidate(IF Raised(pre) THEN pre ELSE validate_data(pre.self), on_overflow)

run_complete_analysis(self, file, on_overflow) ==
    RunFromLoad(load_data(self, file), on_overflow)

\* ------------------------------------------------------------------------
\* SpecPipeline: one analyzer from its construction, under any sequence of
\* its public calls, on a few files.

LoadData(file) == AnalyzerEffect("load_data", load_data(Self, file))
ValidateData == AnalyzerEffect("validate_data", validate_data(Self))
GetSummaryStatistics ==
    \E on_overflow \in {"OverflowError", "inf"} :
        AnalyzerEffect("get_summary_statistics",
                       get_summary_statistics(Self, on_overflow))
RunCompleteAnalysis(file) ==
    \E on_overflow \in {"OverflowError", "inf"} :
        AnalyzerEffect("run_complete_analysis",
                       run_complete_analysis(Self, file, on_overflow))

\* The table without one of its columns.
DropColumn(rows, col) ==
    [i \in 1..Len(rows) |-> [c \in (DOMAIN rows[i]) \ {col} |-> rows[i][c]]]

AllValid(d) == [s \in 1..MaxSamples |-> [present |-> TRUE, ct |-> Num((RefCt + d) * CtUnit)]]
AllAbsent == [s \in 1..MaxSamples |-> [present |-> FALSE, ct |-> NaN]]

\* Two control samples and treated ones, every gene measured with a valid Ct.
GoodRows == RawTable(ConditionsFor(2), [AllValid(TargetDelta) EXCEPT ![1].ct.v = RefCt * CtUnit])

\* The files: a valid table; one without the reference gene; one whose
\* reference gene is measured as NaN everywhere; one with a Ct missing in one
\* of two technical replicates, a Ct of 0 and a Ct above 40; the valid table
\* without each column in turn; and a path that is no file.
FileNames ==
    {"good.csv", "no_reference.csv", "nan_reference.csv", "invalid_ct.csv",
     "no_Sample_ID.csv", "no_Gene.csv", "no_Condition.csv",
     "no_Biological_Rep.csv", "no_Ct_Value.csv", "missing.csv"}

ColumnLacking(name) ==
    CASE name = "no_Sample_ID.csv" -> "Sample_ID"
      [] name = "no_Gene.csv" -> "Gene"
      [] name = "no_Condition.csv" -> "Condition"
      [] name = "no_Biological_Rep.csv" -> "Biological_Rep"
      [] name = "no_Ct_Value.csv" -> "Ct_Value"
      [] OTHER -> ""

ReadCsv(name) ==
    CASE name = "missing.csv" -> [exists |-> FALSE, rows |-> <<>>]
      [] name = "good.csv" -> [exists |-> TRUE, rows |-> GoodRows]
      [] name = "no_reference.csv" ->
            [exists |-> TRUE, rows |-> RawTableRef(AllValid(TargetDelta), AllAbsent)]
      [] name = "nan_reference.csv" ->
            [exists |-> TRUE,
             rows |-> RawTableRef(AllValid(TargetDelta),
                                  [s \in 1..MaxSamples |-> [present |-> TRUE, ct |-> NaN]])]
      [] name = "invalid_ct.csv" ->
            [exists |-> TRUE,
             rows |-> [RawTable(ConditionsFor(1),
                                [AllValid(TargetDelta) EXCEPT
                                    ![2].ct.v = (RefCt + InvalidDelta) * CtUnit])
                       EXCEPT ![1].Ct_Value = NaN, ![Len(GoodRows)].Ct_Value = Num(0)]]
      [] OTHER -> [exists |-> TRUE, rows |-> DropColumn(GoodRows, ColumnLacking(name))]

InitPipeline ==
    /\ results = [e \in Engines |-> EmptyDict]
    /\ ret = NoCall
    /\ last_ttest = [e \in Engines |-> NoTTest]
    /\ warned = <<>>
    /\ NoCallsRunning
    /\ AnalyzerConstructed

NextPipeline ==
    \/ \E f \in FileNames : LoadData(ReadCsv(f))
    \/ ValidateData
    \/ CalculateTechnicalReplicatesMean
    \/ CalculateDeltaCt
    \/ CalculateDeltaDeltaCt
    \/ GetSummaryStatistics
    \/ \E f \in FileNames : RunCompleteAnalysis(ReadCsv(f))

SpecPipeline == InitPipeline /\ [][NextPipeline]_vars

\* ------------------------------------------------------------------------
\* Claims on the pipeline.

\* The replicate means hold no row of the reference gene.
NoReferenceIn(processed) ==
    processed.none \/ \A i \in 1..Len(processed.rows) :
                          processed.rows[i].Gene # reference_gene

\* C13: a calculate_delta_ct call raises whenever the reference gene is in no
\* row of the replicate means it works on, and a call that raises leaves
\* delta_ct_data as it was before the call.
C13_NoReferenceRaisesAndKeepsTable ==
    [][aret'.op = "calculate_delta_ct" =>
        /\ NoReferenceIn(processed_data') => aret'.status # "ok"
        /\ aret'.status # "ok" => delta_ct_data' = delta_ct_data]_vars

\* A delta-Ct table of an earlier file is still there after the call raised
\* on replicate means without the reference gene.
C13_Witness ==
    /\ aret.op = "calculate_delta_ct" /\ aret.status = "ValueError"
    /\ ~processed_data.none /\ processed_data.rows # <<>>
    /\ NoReferenceIn(processed_data)
    /\ ~delta_ct_data.none /\ delta_ct_data.rows # <<>>

\* The columns the pipeline cannot do without: those validate_data requires
\* (line 81) and those calculate_technical_replicates_mean groups by and
\* aggregates (lines 129-133).
RequiredFields == {"Sample_ID", "Gene", "Condition", "Biological_Rep", "Ct_Value"}

\* C14: a run_complete_analysis call that loaded data without one of the
\* required columns raises (ValueError from validate_data for the columns it
\* checks, KeyError from the grouping for Biological_Rep) and produces no
\* replicate-mean, delta-Ct or delta-delta-Ct table from that data.
C14_MissingColumnAbortsRun ==
    [][\A c \in RequiredFields :
          (/\ aret'.op = "run_complete_analysis"
           /\ aret'.status # "FileNotFoundError"
           /\ c \notin ColumnsOf(raw_data'.rows))
          => /\ aret'.status = (IF c = "Biological_Rep" THEN "KeyError" ELSE "ValueError")
             /\ UNCHANGED <<processed_data, delta_ct_data, delta_delta_ct_data>>]_vars

\* A run on a file without the Biological_Rep column, which validate_data
\* does not check, has raised on an analyzer that holds the tables of an
\* earlier run.
C14_Witness ==
    /\ aret.op = "run_complete_analysis" /\ aret.status = "KeyError"
    /\ ~raw_data.none /\ raw_data.rows # <<>>
    /\ "Biological_Rep" \notin ColumnsOf(raw_data.rows)
    /\ validated.done
    /\ ~processed_data.none /\ ~delta_ct_data.none /\ ~delta_delta_ct_data.none

\* The rows of a table other than row i.
Without(rows, i) ==
    [j \in 1..(Len(rows) - 1) |-> rows[IF j < i THEN j ELSE j + 1]]

\* Measurement i of the raw table is left out of the replicate means: the row
\* of its group in processed_data (lines 132-137) is the one the other
\* measurements of the group give without it.
LeftOut(rows, processed, i) ==
    \E p \in 1..Len(processed) :
        processed[p] =
            ReplicateRow(GroupKey(rows[i]),
                Column(SelectSeq(Without(rows, i),
                                 LAMBDA r : GroupKey(r) = GroupKey(rows[i])),
                       "Ct_Value"))

\* validate_data has reported, on the data loaded, a warning that counts the
\* invalid Ct values (lines 102-104).
Flagged ==
    /\ validated.done
    /\ \E w \in 1..Len(validated.warnings) :
          /\ validated.warnings[w].warning = "invalid Ct values"
          /\ validated.warnings[w].count =
                Len(SelectSeq(raw_data.rows, LAMBDA r : invalid_ct(r.Ct_Value)))

\* processed_data has just been computed from raw_data.
MeansJustComputed ==
    /\ aret.op \in {"calculate_technical_replicates_mean", "run_complete_analysis"}
    /\ aret.status = "ok"

\* C15: no measurement with an invalid Ct (missing, <= 0 or > 40) is left
\* out of the technical-replicate mean and count unless validation has
\* flagged it with a warning that counts it.
C15_InvalidNeverSilentlyDropped ==
    MeansJustComputed =>
        \A i \in 1..Len(raw_data.rows) :
            (invalid_ct(raw_data.rows[i].Ct_Value)
                /\ LeftOut(raw_data.rows, processed_data.rows, i)) => Flagged

\* Within run_complete_analysis the count of validate_data covers every
\* invalid measurement of the file before the means are computed.
C15_FlaggedWithinRun ==
    (aret.op = "run_complete_analysis" /\ aret.status = "ok") =>
        \A i \in 1..Len(raw_data.rows) :
            invalid_ct(raw_data.rows[i].Ct_Value) => Flagged

\* A run has completed on a file with a missing Ct, which the warning counts
\* and the mean of its group leaves out.
C15_Witness ==
    /\ aret.op = "run_complete_analysis" /\ aret.status = "ok"
    /\ Flagged
    /\ \E i \in 1..Len(raw_data.rows) :
          /\ raw_data.rows[i].Ct_Value.nan
          /\ LeftOut(raw_data.rows, processed_data.rows, i)
    /\ \E i \in 1..Len(raw_data.rows) :
          /\ invalid_ct(raw_data.rows[i].Ct_Value)
          /\ ~LeftOut(raw_data.rows, processed_data.rows, i)

\* An analyzer just constructed on which load_data has read the table raw.
FreshAnalyzer(raw) ==
    [raw_data |-> raw, processed_data |-> None, delta_ct_data |-> None,
     delta_delta_ct_data |-> None, validated |-> NotValidated]

\* What the call op returns on a fresh analyzer that has loaded raw.
FreshResult(op, raw, on_overflow) ==
    IF op = "calculate_delta_ct"
    THEN calculate_delta_ct(FreshAnalyzer(raw))
    ELSE calculate_delta_delta_ct(FreshAnalyzer(raw), on_overflow)

\* The value v is what the call op computes from the table raw.
ComputedFrom(op, raw, v) ==
    \E on_overflow \in {"OverflowError", "inf"} :
        /\ FreshResult(op, raw, on_overflow).status = "ok"
        /\ FreshResult(op, raw, on_overflow).value = v

\* C27: whenever a calculate_delta_ct or calculate_delta_delta_ct call
\* returns, what it returns is computed from the raw data loaded at that
\* moment, whatever was loaded and computed before.
C27_ResultsFromLoadedData ==
    (aret.op \in {"calculate_delta_ct", "calculate_delta_delta_ct"} /\ aret.status = "ok")
        => ComputedFrom(aret.op, raw_data, aret.value)

\* The part of C27 that holds: the tables run_complete_analysis returns are
\* computed from the file it loaded, whatever the analyzer held before.
C27_RunComputesFromItsFile ==
    (aret.op = "run_complete_analysis" /\ aret.status = "ok") =>
        /\ aret.value.raw_data = raw_data.rows
        /\ aret.value.processed_data = TechMeans(raw_data.rows)
        /\ ComputedFrom("calculate_delta_ct", raw_data, aret.value.delta_ct_data)
        /\ ComputedFrom("calculate_delta_delta_ct", raw_data,
                        aret.value.delta_delta_ct_data)

\* A calculate_delta_ct call has returned the delta-Ct rows of the file
\* loaded before, while the file loaded now has no reference gene, on which
\* the call raises.
C27_Witness ==
    /\ aret.op = "calculate_delta_ct" /\ aret.status = "ok"
    /\ aret.value # <<>> /\ aret.value = delta_ct_data.rows
    /\ processed_data.rows # TechMeans(raw_data.rows)
    /\ calculate_delta_ct(FreshAnalyzer(raw_data)).status = "ValueError"

CalculateOps ==
    {"calculate_technical_replicates_mean", "calculate_delta_ct",
     "calculate_delta_delta_ct"}

\* C29: at every moment the tables of the analyzer are nested: the fold
\* changes are present only with the delta-Ct table, that one only with the
\* replicate means, those only with the raw data; and a calculate_* call on
\* an analyzer without raw data has raised 'No data loaded' and set no table.
C29_TablesNested ==
    /\ ~delta_delta_ct_data.none => ~delta_ct_data.none
    /\ ~delta_ct_data.none => ~processed_data.none
    /\ ~processed_data.none => ~raw_data.none
    /\ (aret.op \in CalculateOps /\ raw_data.none) =>
          /\ aret.status = "ValueError" /\ aret.value = <<"No data loaded">>
          /\ processed_data.none /\ delta_ct_data.none /\ delta_delta_ct_data.none

\* calculate_delta_delta_ct has failed on loaded data after computing the
\* replicate means: the chain of tables stops at processed_data.
C29_Witness ==
    /\ aret.op = "calculate_delta_delta_ct" /\ aret.status # "ok"
    /\ ~raw_data.none /\ ~processed_data.none
    /\ delta_ct_data.none /\ delta_delta_ct_data.none

\* calculate_delta_delta_ct has been called before any data was loaded.
C29_BeforeLoadWitness ==
    /\ aret.op = "calculate_delta_delta_ct"
    /\ raw_data.none
    /\ aret.value = <<"No data loaded">>

====
